---- MODULE Spec2Model ----
(***************************************************************************)
(* Model of the asynchronous analysis orchestration core of aiflow:        *)
(*   aiflow/analysis/queue.py   TaskQueue  (priority scheduler)            *)
(*   aiflow/analysis/engine.py  AnalysisEngine.run_job (stage pipeline)    *)
(*                                                                         *)
(* The program runs on one asyncio event loop.  A coroutine runs without   *)
(* interruption from one await to the next, so every action below is the   *)
(* code between two suspension points.  asyncio.create_task() only appends *)
(* the new coroutine to the loop's FIFO of ready callbacks; it starts      *)
(* running after the creator has suspended.                                *)
(***************************************************************************)
EXTENDS Integers, Sequences, FiniteSets, TLC

\* ------------------------------------------------------------------ bounds
MaxTasks == 2        \* number of successful submit() calls explored
MaxConcurrent == 1   \* the max_concurrent the queue is constructed with
MaxQueueSize == 2    \* the max_queue_size the queue is constructed with
MaxJobs == 1         \* number of create_job() calls explored
MaxCallers == 2      \* number of direct run_job() calls explored
MaxClock == 1        \* number of times the wall clock is seen to advance
MaxPayloadKeys == 2  \* number of distinct top-level keys in stage payloads
MaxCheckErrors == 2  \* number of messages one check of the validator returns
MaxMessages == 3     \* size of a ValidationResult that callers still add to
MaxRefs == 2         \* number of referring entries in a report
MaxOrders == 2       \* number of steps in a trace
MaxOrder == 2        \* largest execution_order in a trace
MaxOrphans == 1      \* number of _worker coroutines alive beside the newest one
MaxVersions == 3     \* number of versions of the cached file
MaxRetries == 3      \* largest config.max_retries of an adapter
MaxItems == 2        \* number of items in a list, tuple or dict of a report

\* --------------------------------------------------------------- constants
LOW == 0
NORMAL == 1
HIGH == 2
URGENT == 3
TaskPriority == {LOW, NORMAL, HIGH, URGENT}

PENDING == "pending"
RUNNING == "running"
COMPLETED == "completed"
FAILED == "failed"
CANCELLED == "cancelled"
TIMEOUT == "timeout"
TaskState == {PENDING, RUNNING, COMPLETED, FAILED, CANCELLED, TIMEOUT}

None == "None"

\* the value of a datetime field once datetime.now() has been stored in it
Datetime == "datetime"

\* Exceptions a task's operation can raise.  asyncio.TimeoutError and
\* asyncio.CancelledError have their own except clauses in _run_task.
AsyncioTimeoutError == "asyncio.TimeoutError"
AsyncioCancelledError == "asyncio.CancelledError"
OtherException == "Exception"
OpErrors == {AsyncioTimeoutError, AsyncioCancelledError, OtherException}

\* The error _run_task builds itself: TimeoutError("Task timeout after ..s")
SynthTimeoutError == "TimeoutError(Task timeout)"

\* timeout arguments explored by submit: absent, zero, a positive duration
Timeouts == {None, "0.0", "30.0"}

TaskIds == 1..MaxTasks
JobIds == 1..MaxJobs
\* the job ids handed to run_job: those create_job returns and one it never does
RunJobIds == 1..(MaxJobs + 1)
Callers == 1..MaxCallers

VARIABLES
    tasks,           \* self.tasks: task id -> QueueTask
    queues,          \* self.queues: priority -> deque of task ids
    running_tasks,   \* self.running_tasks
    worker_task,     \* self._worker_task is not None
    shutdown_event,  \* self._shutdown_event.is_set()
    worker_pc,       \* position of the _worker coroutine
    stop_pc,         \* caller -> position of its stop() call
    loop_ready,      \* _run_task coroutines created and not yet started (FIFO)
    op_pc,           \* task id -> position of its _run_task coroutine
    ret,             \* what the last submit/cancel/start/stop call returned or raised
    started,         \* task ids in the order their _run_task began (history)
    dispatch_began,  \* len(self.tasks) when _get_next_task first returned a
                     \* task, 0 before that (history)
    jobs,            \* AnalysisEngine.jobs: job id -> AnalysisJob
    now,             \* what datetime.now() returns to the engine
    flows,           \* direct run_job call -> the job id it runs (0 before the
                     \* call, -1 after it) and result.started_at of its _run_stage
    arg,             \* the argument of a function examined on its own
    res,             \* <<>> before that function is called, <<its result>> after
    orphans,         \* number of sleeping _worker coroutines that
                     \* self._worker_task no longer refers to
    files,           \* the job ids whose output_path holds a file
    file_metadata,   \* FileCache._file_metadata[str(file_path)] for one file_path
    disk,            \* that file on disk: whether it exists and its st_mtime
    waiters          \* the task ids a wait_for_task call without timeout polls

vars == <<tasks, queues, running_tasks, worker_task, shutdown_event, worker_pc,
          stop_pc, loop_ready, op_pc, ret, started, dispatch_began, jobs, now,
          flows, arg, res, orphans, files,
        file_metadata, disk, waiters>>

\* the state of the queue and the engine
services == <<tasks, queues, running_tasks, worker_task, shutdown_event, worker_pc,
              stop_pc, loop_ready, op_pc, ret, started, dispatch_began, jobs, now,
              flows, orphans, files, waiters>>

\* the state of the queue, the engine and the file cache
program == <<services, file_metadata, disk>>

\* ----------------------------------------------------------------- helpers
\* bool(task.timeout): None and 0 are falsy
Truthy(timeout) == timeout \notin {None, "0.0"}

\* deque.remove(x): removes the first occurrence (cancel ignores the
\* ValueError raised when x is absent)
RECURSIVE Remove(_, _)
Remove(q, x) ==
    IF q = <<>> THEN <<>>
    ELSE IF Head(q) = x THEN Tail(q)
    ELSE <<Head(q)>> \o Remove(Tail(q), x)

InSeq(q, x) == \E i \in 1..Len(q) : q[i] = x

\* sum(len(q) for q in self.queues.values())
total_queued == Len(queues[LOW]) + Len(queues[NORMAL]) + Len(queues[HIGH]) + Len(queues[URGENT])

\* the event loop is free for another coroutine: the worker runs from one
\* asyncio.sleep to the next without yielding
LoopIdle == worker_pc # "active"

\* QueueTask(...) as built by submit; job = 0 for an arbitrary operation,
\* job = j when func is AnalysisEngine.run_job and args is the job id j
NewTask(priority, timeout, job) ==
    [priority |-> priority, state |-> PENDING, result |-> None, error |-> None,
     timeout |-> timeout, created_at |-> Datetime, started_at |-> None,
     completed_at |-> None, job |-> job]

\* Optional[datetime] = None
NoTime == -1

\* a direct run_job call that is yet to be made, and one that is over
Idle == [job |-> 0, started_at |-> NoTime]

Over == [job |-> -1, started_at |-> NoTime]

\* a value that is None or absent where the others are numbers
NoEntry == -1

\* file_key not in self._file_metadata
NoMetadata == [present |-> FALSE, hash |-> NoEntry, lines |-> NoEntry, mtime |-> NoEntry]

\* TaskQueue(...), AnalysisEngine(...) and FileCache(...) as constructed
Constructed ==
    /\ tasks = <<>>
    /\ queues = [p \in TaskPriority |-> <<>>]
    /\ running_tasks = {}
    /\ worker_task = FALSE
    /\ shutdown_event = FALSE
    /\ worker_pc = "none"
    /\ stop_pc = [c \in Callers |-> "idle"]
    /\ loop_ready = <<>>
    /\ op_pc = <<>>
    /\ ret = None
    /\ started = <<>>
    /\ dispatch_began = 0
    /\ jobs = <<>>
    /\ now = 0
    /\ flows = [c \in Callers |-> Idle]
    /\ orphans = 0
    /\ files = {}
    /\ file_metadata = NoMetadata
    /\ disk = [exists |-> TRUE, st_mtime |-> 1]
    /\ waiters = {}

Init ==
    /\ Constructed
    /\ arg = <<>>
    /\ res = <<>>

\* ------------------------------------------------------------ start / stop
\* start(). A worker that stop() lost track of (see stop_return) is still
\* alive when the new one is created.
start ==
    /\ LoopIdle
    /\ IF worker_task
       THEN /\ ret' = "RuntimeError"
            /\ UNCHANGED <<shutdown_event, worker_task, worker_pc, orphans>>
       ELSE /\ worker_pc = "sleeping" => orphans < MaxOrphans
            /\ shutdown_event' = FALSE
            /\ worker_task' = TRUE
            /\ worker_pc' = "sleeping"
            /\ orphans' = IF worker_pc = "sleeping" THEN orphans + 1 ELSE orphans
            /\ ret' = None
    /\ UNCHANGED <<tasks, queues, running_tasks, stop_pc, loop_ready, op_pc, started, dispatch_began, jobs>>
    /\ UNCHANGED <<now, flows, arg, res, files,
        file_metadata, disk, waiters>>

\* stop() of caller c up to its await of the worker; the await of a worker
\* that has already returned does not suspend
stop(c) ==
    /\ LoopIdle
    /\ stop_pc[c] = "idle"
    /\ IF ~worker_task
       THEN /\ ret' = None
            /\ UNCHANGED <<shutdown_event, stop_pc, worker_task, worker_pc>>
       ELSE IF worker_pc = "exited"
       THEN /\ shutdown_event' = TRUE
            /\ worker_task' = FALSE
            /\ worker_pc' = "none"
            /\ ret' = None
            /\ UNCHANGED stop_pc
       ELSE /\ shutdown_event' = TRUE
            /\ stop_pc' = [stop_pc EXCEPT ![c] = "waiting"]
            /\ UNCHANGED <<ret, worker_task, worker_pc>>
    /\ UNCHANGED <<tasks, queues, running_tasks,
                   loop_ready, op_pc, started, dispatch_began, jobs>>
    /\ UNCHANGED <<now, flows, arg, res, orphans, files,
        file_metadata, disk, waiters>>

\* the worker that caller c awaited has returned: stop() resumes and clears
\* _worker_task, whichever worker it refers to by now. The _run_task
\* coroutines the worker created were made ready before the worker's last
\* sleep, so the loop has run their first step by now.
stop_return(c) ==
    /\ LoopIdle
    /\ stop_pc[c] = "released"
    /\ loop_ready = <<>>
    /\ worker_task' = FALSE
    /\ worker_pc' = IF worker_pc = "exited" THEN "none" ELSE worker_pc
    /\ stop_pc' = [stop_pc EXCEPT ![c] = "idle"]
    /\ ret' = None
    /\ UNCHANGED <<tasks, queues, running_tasks, shutdown_event, loop_ready,
                   op_pc, started, dispatch_began, jobs>>
    /\ UNCHANGED <<now, flows, arg, res, orphans, files,
        file_metadata, disk, waiters>>

\* the wait of caller c timed out while the worker sleeps: the worker is
\* cancelled, and stop() resumes after the cancellation, behind the
\* coroutines made ready before it. The other stop() calls awaiting the
\* worker end with its CancelledError, which stop() does not catch.
stop_timeout(c) ==
    /\ stop_pc[c] = "waiting"
    /\ worker_pc = "sleeping"
    /\ loop_ready = <<>>
    /\ worker_task' = FALSE
    /\ worker_pc' = "none"
    /\ stop_pc' = [k \in Callers |-> "idle"]
    /\ ret' = None
    /\ UNCHANGED <<tasks, queues, running_tasks, shutdown_event, loop_ready,
                   op_pc, started, dispatch_began, jobs>>
    /\ UNCHANGED <<now, flows, arg, res, orphans, files,
        file_metadata, disk, waiters>>

\* ------------------------------------------------------------------ submit
\* variant: appendleft instead of append
Enqueue_Front(q, task_id) == <<task_id>> \o q

\* variant: the id is appended twice
Enqueue_Twice(q, task_id) == q \o <<task_id, task_id>>

\* self.queues[priority].append(task_id)
Enqueue(q, task_id) == Append(q, task_id)

\* variant: the capacity test counts every recorded task
QueueFull_CountsTasks == Len(tasks) >= MaxQueueSize

\* total_queued >= self.max_queue_size
QueueFull == total_queued >= MaxQueueSize

submit(priority, timeout, job) ==
    /\ LoopIdle
    /\ IF QueueFull
       THEN /\ ret' = "RuntimeError"
            /\ UNCHANGED <<tasks, queues, op_pc>>
       ELSE LET task_id == Len(tasks) + 1 IN
            /\ Len(tasks) < MaxTasks
            /\ tasks' = Append(tasks, NewTask(priority, timeout, job))
            /\ queues' = [queues EXCEPT ![priority] = Enqueue(@, task_id)]
            /\ op_pc' = Append(op_pc, "none")
            /\ ret' = "task_id"
    /\ UNCHANGED <<running_tasks, worker_task, shutdown_event, worker_pc, stop_pc,
                   loop_ready, started, dispatch_began, jobs>>
    /\ UNCHANGED <<now, flows, arg, res, orphans, files,
        file_metadata, disk, waiters>>

\* ------------------------------------------------------------ wait_for_task
\* task.state in [TaskState.PENDING, TaskState.RUNNING]
StillWaiting(state) == state \in {PENDING, RUNNING}

\* variant: a wait that runs out of time takes the task down with it
wait_for_task_Cancelling(task_id, elapsed) ==
    /\ LoopIdle
    /\ task_id \in DOMAIN tasks
    /\ StillWaiting(tasks[task_id].state)
    /\ elapsed
    /\ ret' = AsyncioTimeoutError
    /\ tasks' = [tasks EXCEPT ![task_id].state = CANCELLED]
    /\ UNCHANGED <<queues, running_tasks, worker_task, shutdown_event, worker_pc,
                   stop_pc, loop_ready, op_pc, started, dispatch_began, jobs>>
    /\ UNCHANGED <<now, flows, arg, res, orphans, files,
        file_metadata, disk, waiters>>

\* wait_for_task(task_id, timeout): the call up to its first poll, or one
\* later poll of its loop; elapsed says whether a timeout was given and has
\* run out at this poll. A poll that finds nothing goes back to sleep.
wait_for_task(task_id, elapsed) ==
    /\ LoopIdle
    /\ IF task_id \notin DOMAIN tasks THEN ret' = "ValueError"
       ELSE IF ~StillWaiting(tasks[task_id].state) THEN ret' = "task"
       ELSE IF elapsed THEN ret' = AsyncioTimeoutError
       ELSE ret' = ret
    /\ UNCHANGED <<tasks, queues, running_tasks, worker_task, shutdown_event,
                   worker_pc, stop_pc, loop_ready, op_pc, started, dispatch_began,
                   jobs>>
    /\ UNCHANGED <<now, flows, arg, res, orphans, files,
        file_metadata, disk, waiters>>

\* await queue.wait_for_task(task_id) (timeout=None), from the call to the
\* first test of the while loop: it returns at once or sleeps
wait_enter(task_id) ==
    /\ LoopIdle
    /\ task_id \in DOMAIN tasks
    /\ task_id \notin waiters
    /\ IF StillWaiting(tasks[task_id].state)
       THEN waiters' = waiters \cup {task_id} /\ UNCHANGED ret
       ELSE ret' = "task" /\ UNCHANGED waiters
    /\ UNCHANGED <<tasks, queues, running_tasks, worker_task, shutdown_event,
                   worker_pc, stop_pc, loop_ready, op_pc, started, dispatch_began,
                   jobs>>
    /\ UNCHANGED <<now, flows, arg, res, orphans, files, file_metadata, disk>>

\* the call wakes from asyncio.sleep(0.1) and tests the while loop again
wait_poll(task_id) ==
    /\ LoopIdle
    /\ task_id \in waiters
    /\ IF StillWaiting(tasks[task_id].state)
       THEN UNCHANGED <<waiters, ret>>
       ELSE ret' = "task" /\ waiters' = waiters \ {task_id}
    /\ UNCHANGED <<tasks, queues, running_tasks, worker_task, shutdown_event,
                   worker_pc, stop_pc, loop_ready, op_pc, started, dispatch_began,
                   jobs>>
    /\ UNCHANGED <<now, flows, arg, res, orphans, files, file_metadata, disk>>

\* ---------------------------------------------------------------- get_stats
\* sum(1 for t in self.tasks.values() if t.state == state)
CountState(state) == Cardinality({i \in DOMAIN tasks : tasks[i].state = state})

\* get_stats(), without the two averages
get_stats ==
    [total_tasks |-> Len(tasks),
     running |-> Cardinality(running_tasks),
     pending |-> total_queued,
     completed |-> CountState(COMPLETED),
     failed |-> CountState(FAILED),
     cancelled |-> CountState(CANCELLED),
     timeout |-> CountState(TIMEOUT),
     max_concurrent |-> MaxConcurrent,
     queue_by_priority |-> [p \in TaskPriority |-> Len(queues[p])]]

\* variant: the statistics are taken and the sub-queues are emptied
call_get_stats_Draining ==
    /\ LoopIdle
    /\ res' = <<get_stats>>
    /\ queues' = [p \in TaskPriority |-> <<>>]
    /\ UNCHANGED <<tasks, running_tasks, worker_task, shutdown_event, worker_pc,
                   stop_pc, loop_ready, op_pc, ret, started, dispatch_began, jobs,
                   now, flows, orphans, files, arg,
                   file_metadata, disk, waiters>>

\* stats = queue.get_stats()
call_get_stats ==
    /\ LoopIdle
    /\ res' = <<get_stats>>
    /\ UNCHANGED <<program, arg>>

\* ------------------------------------------------------------------ cancel
\* variant: the state check of cancel is missing
Cancellable_Always(state) == TRUE

\* task.state in [TaskState.PENDING, TaskState.RUNNING]
Cancellable(state) == state \in {PENDING, RUNNING}

cancel(task_id) ==
    /\ LoopIdle
    /\ IF task_id \notin DOMAIN tasks
       THEN /\ ret' = "False"
            /\ UNCHANGED <<tasks, queues>>
       ELSE LET task == tasks[task_id] IN
            IF ~Cancellable(task.state)
            THEN /\ ret' = "False"
                 /\ UNCHANGED <<tasks, queues>>
            ELSE /\ queues' = IF task.state = PENDING
                              THEN [queues EXCEPT ![task.priority] = Remove(@, task_id)]
                              ELSE queues
                 /\ tasks' = [tasks EXCEPT ![task_id].state = CANCELLED,
                                           ![task_id].completed_at = Datetime]
                 /\ ret' = "True"
    /\ UNCHANGED <<running_tasks, worker_task, shutdown_event, worker_pc, stop_pc,
                   loop_ready, op_pc, started, dispatch_began, jobs>>
    /\ UNCHANGED <<now, flows, arg, res, orphans, files,
        file_metadata, disk, waiters>>

\* ----------------------------------------------------------------- _worker
\* variant: the priorities are walked from low to high
NextPriority_Lowest ==
    CHOOSE p \in TaskPriority :
        /\ queues[p] # <<>>
        /\ \A r \in TaskPriority : queues[r] # <<>> => r >= p

\* _get_next_task: the priority whose queue is popped
\* (sorted(TaskPriority, key=value, reverse=True), first non-empty)
NextPriority ==
    CHOOSE p \in TaskPriority :
        /\ queues[p] # <<>>
        /\ \A r \in TaskPriority : queues[r] # <<>> => r <= p

\* queue.popleft(): what is left of the deque
AfterPopLeft(q) == Tail(q)

\* the done callbacks of the worker task: every stop() call that awaits
\* the worker is made ready to resume
Released == [c \in Callers |-> IF stop_pc[c] = "waiting" THEN "released" ELSE stop_pc[c]]

\* the sleeping (or newly created) worker gets the event loop
worker_wake ==
    /\ worker_pc = "sleeping"
    /\ worker_pc' = "active"
    /\ UNCHANGED <<tasks, queues, running_tasks, worker_task, shutdown_event,
                   stop_pc, loop_ready, op_pc, ret, started, dispatch_began, jobs>>
    /\ UNCHANGED <<now, flows, arg, res, orphans, files,
        file_metadata, disk, waiters>>

\* one iteration of the while loop of _worker
worker_iter ==
    /\ worker_pc = "active"
    /\ IF shutdown_event
       THEN /\ worker_pc' = "exited"
            /\ stop_pc' = Released
            /\ UNCHANGED <<queues, loop_ready, dispatch_began>>
       ELSE IF Cardinality(running_tasks) >= MaxConcurrent
       THEN /\ worker_pc' = "sleeping"
            /\ UNCHANGED <<queues, loop_ready, dispatch_began, stop_pc>>
       ELSE IF total_queued = 0
       THEN /\ worker_pc' = "sleeping"
            /\ UNCHANGED <<queues, loop_ready, dispatch_began, stop_pc>>
       ELSE LET p == NextPriority
                task_id == Head(queues[p]) IN
            /\ queues' = [queues EXCEPT ![p] = AfterPopLeft(@)]
            /\ loop_ready' = Append(loop_ready, task_id)
            /\ dispatch_began' = IF dispatch_began = 0 THEN Len(tasks) ELSE dispatch_began
            /\ UNCHANGED <<worker_pc, stop_pc>>
    /\ UNCHANGED <<tasks, running_tasks, worker_task, shutdown_event,
                   op_pc, ret, started, jobs>>
    /\ UNCHANGED <<now, flows, arg, res, orphans, files,
        file_metadata, disk, waiters>>

\* a sleeping worker that _worker_task does not refer to gets the event
\* loop and runs to its next sleep or to its end: it returns if the
\* shutdown event is set, sleeps again if max_concurrent tasks are running,
\* and otherwise pops every queued task, highest priority first (the
\* running set does not change while it pops)
orphan_step ==
    /\ LoopIdle
    /\ orphans > 0
    /\ IF shutdown_event
       THEN /\ orphans' = orphans - 1
            /\ UNCHANGED <<queues, loop_ready, dispatch_began>>
       ELSE IF Cardinality(running_tasks) >= MaxConcurrent
       THEN UNCHANGED <<queues, loop_ready, dispatch_began, orphans>>
       ELSE /\ loop_ready' = loop_ready \o queues[URGENT] \o queues[HIGH]
                                        \o queues[NORMAL] \o queues[LOW]
            /\ queues' = [p \in TaskPriority |-> <<>>]
            /\ dispatch_began' = IF dispatch_began = 0 /\ total_queued > 0
                                 THEN Len(tasks) ELSE dispatch_began
            /\ UNCHANGED orphans
    /\ UNCHANGED <<tasks, running_tasks, worker_task, shutdown_event, stop_pc,
                   worker_pc, op_pc, ret, started, jobs>>
    /\ UNCHANGED <<now, flows, arg, res, files,
        file_metadata, disk, waiters>>

\* --------------------------------------------------------------- _run_task
\* task.state = RUNNING; task.started_at = datetime.now()
MarkRunning(task) == [task EXCEPT !.state = RUNNING, !.started_at = Datetime]

\* the operation returned result: the end of the try block, then finally
AfterReturn(task, result) ==
    [task EXCEPT !.result = result, !.state = COMPLETED, !.completed_at = Datetime]

\* variant: no except clause for asyncio.CancelledError
AfterExcept_CancelUncaught(task, e) ==
    IF e = AsyncioTimeoutError
    THEN [task EXCEPT !.state = TIMEOUT, !.error = SynthTimeoutError,
                      !.completed_at = Datetime]
    ELSE IF e = AsyncioCancelledError
    THEN [task EXCEPT !.completed_at = Datetime]
    ELSE [task EXCEPT !.state = FAILED, !.error = e, !.completed_at = Datetime]

\* the except clauses for the exception e leaving the awaited expression,
\* then finally
AfterExcept(task, e) ==
    IF e = AsyncioTimeoutError
    THEN [task EXCEPT !.state = TIMEOUT, !.error = SynthTimeoutError,
                      !.completed_at = Datetime]
    ELSE IF e = AsyncioCancelledError
    THEN [task EXCEPT !.state = CANCELLED, !.completed_at = Datetime]
    ELSE [task EXCEPT !.state = FAILED, !.error = e, !.completed_at = Datetime]

\* _run_task of an arbitrary operation, up to the await of the operation
run_task_start ==
    /\ LoopIdle
    /\ loop_ready # <<>>
    /\ LET task_id == Head(loop_ready) IN
       /\ tasks[task_id].job = 0
       /\ tasks' = [tasks EXCEPT ![task_id] = MarkRunning(@)]
       /\ running_tasks' = running_tasks \cup {task_id}
       /\ op_pc' = [op_pc EXCEPT ![task_id] = "awaiting"]
       /\ started' = Append(started, task_id)
    /\ loop_ready' = Tail(loop_ready)
    /\ UNCHANGED <<queues, worker_task, shutdown_event, worker_pc, stop_pc, ret,
                   dispatch_began, jobs>>
    /\ UNCHANGED <<now, flows, arg, res, orphans, files,
        file_metadata, disk, waiters>>

\* self.running_tasks.discard(task_id), and the coroutine ends
Finally(task_id) ==
    /\ running_tasks' = running_tasks \ {task_id}
    /\ op_pc' = [op_pc EXCEPT ![task_id] = "done"]

\* the operation returned
op_return(task_id) ==
    /\ LoopIdle
    /\ task_id \in DOMAIN tasks
    /\ op_pc[task_id] = "awaiting"
    /\ tasks[task_id].job = 0
    /\ tasks' = [tasks EXCEPT ![task_id] = AfterReturn(@, "result")]
    /\ Finally(task_id)
    /\ UNCHANGED <<queues, worker_task, shutdown_event, worker_pc, stop_pc,
                   loop_ready, ret, started, dispatch_began, jobs>>
    /\ UNCHANGED <<now, flows, arg, res, orphans, files,
        file_metadata, disk, waiters>>

\* the operation raised e
op_raise(task_id, e) ==
    /\ LoopIdle
    /\ task_id \in DOMAIN tasks
    /\ op_pc[task_id] = "awaiting"
    /\ tasks[task_id].job = 0
    /\ tasks' = [tasks EXCEPT ![task_id] = AfterExcept(@, e)]
    /\ Finally(task_id)
    /\ UNCHANGED <<queues, worker_task, shutdown_event, worker_pc, stop_pc,
                   loop_ready, ret, started, dispatch_began, jobs>>
    /\ UNCHANGED <<now, flows, arg, res, orphans, files,
        file_metadata, disk, waiters>>

\* asyncio.wait_for gave up on the operation after task.timeout seconds
timeout_elapse(task_id) ==
    /\ LoopIdle
    /\ task_id \in DOMAIN tasks
    /\ op_pc[task_id] = "awaiting"
    /\ tasks[task_id].job = 0
    /\ Truthy(tasks[task_id].timeout)
    /\ tasks' = [tasks EXCEPT ![task_id] = AfterExcept(@, AsyncioTimeoutError)]
    /\ Finally(task_id)
    /\ UNCHANGED <<queues, worker_task, shutdown_event, worker_pc, stop_pc,
                   loop_ready, ret, started, dispatch_began, jobs>>
    /\ UNCHANGED <<now, flows, arg, res, orphans, files,
        file_metadata, disk, waiters>>

\* ---------------------------------------------------------- AnalysisEngine
\* AnalysisEngine.STAGE_ORDER
STAGE_ORDER == <<"project_understanding", "structure_recognition",
                 "semantic_analysis", "execution_inference",
                 "concurrency_detection">>

AnalysisStage == {STAGE_ORDER[i] : i \in 1..Len(STAGE_ORDER)}

\* enumerate(self.STAGE_ORDER): the index of a stage
StageIndex(stage) == CHOOSE i \in 1..Len(STAGE_ORDER) : STAGE_ORDER[i] = stage

\* validation_result.errors of the payloads that validate_complete rejects
ValidationErrors ==
    {<<"Schema validation">>, <<"Timestamp validation", "UUID validation">>}

\* what the awaited ai_adapter.generate_with_retry call, followed by
\* json.loads and validate_complete, can come to
ModelOutcomes ==
    {[kind |-> k, errors |-> <<>>] : k \in {"ok", "adapter_error", "invalid_json"}}
    \cup {[kind |-> "invalid_content", errors |-> es] : es \in ValidationErrors}

\* job.stage_results.get(stage) of a stage that has no entry
Absent ==
    [status |-> None, data |-> None, error |-> None, detail |-> <<>>,
     started_at |-> NoTime, completed_at |-> NoTime]

\* AnalysisJob(...) as built by create_job
NewJob ==
    [status |-> PENDING, current_stage |-> None,
     stage_results |-> [st \in AnalysisStage |-> Absent],
     final_result |-> None, created_at |-> now, started_at |-> NoTime,
     completed_at |-> NoTime]

\* the StageResult _run_stage returns; error is the fixed text of the message
\* and detail what the f-string embeds in it
StageResult(status, data, error, detail, started_at) ==
    [status |-> status, data |-> data, error |-> error, detail |-> detail,
     started_at |-> started_at, completed_at |-> now]

\* variant: only the first validator error is reported
FormatErrors_First(errors) == <<Head(errors)>>

\* {validation_result.errors} in the message of a failed validation
FormatErrors(errors) == errors

\* _run_stage, from the return of generate_with_retry to its return
StageResultOf(outcome, started_at) ==
    IF outcome.kind = "ok"
    THEN StageResult(COMPLETED, "data", None, <<>>, started_at)
    ELSE IF outcome.kind = "invalid_json"
    THEN StageResult(FAILED, None, "Invalid JSON response: ",
                     <<"JSONDecodeError">>, started_at)
    ELSE IF outcome.kind = "invalid_content"
    THEN StageResult(FAILED, None, "Validation failed: ",
                     FormatErrors(outcome.errors), started_at)
    ELSE StageResult(FAILED, None, "AdapterError", <<>>, started_at)

\* variant: only a completed job is refused
Blocked_CompletedOnly(status) == status = COMPLETED

\* variant: only a running job is refused
Blocked_RunningOnly(status) == status = RUNNING

\* job.status in [AnalysisStatus.RUNNING, AnalysisStatus.COMPLETED]
Blocked(status) == status \in {RUNNING, COMPLETED}

\* run_job after its two checks, up to the for loop
EnterJob(job) == [job EXCEPT !.status = RUNNING, !.started_at = now]

\* variant: a failed stage does not end the run
StageHalts_Never(stage_result) == FALSE

\* stage_result.status == AnalysisStatus.FAILED
StageHalts(stage_result) == stage_result.status = FAILED

\* job.stage_results[stage] = stage_result and the test of its status that follows
RecordStage(job, stage, stage_result) ==
    LET j1 == [job EXCEPT !.stage_results[stage] = stage_result] IN
    IF StageHalts(stage_result)
    THEN [j1 EXCEPT !.status = FAILED, !.completed_at = now]
    ELSE j1

\* the except clause of run_job, up to its raise
JobExcept(job) == [job EXCEPT !.status = FAILED, !.completed_at = now]

\* variant: a prompt that fails to render is sent to the model all the same
BeginStage_IgnoresRender(job, stage, render_ok) == [job EXCEPT !.current_stage = stage]

\* one pass of the for loop from the call of _run_stage to the await in it;
\* when the prompt renderer raises, _run_stage returns a failed StageResult
\* at once
BeginStage(job, stage, render_ok) ==
    LET j1 == [job EXCEPT !.current_stage = stage] IN
    IF render_ok THEN j1
    ELSE RecordStage(j1, stage, StageResult(FAILED, None, "RenderError", <<>>, now))

\* the code after the for loop: merge, completed
FinishJob(job) ==
    [job EXCEPT !.final_result = "merged", !.status = COMPLETED,
                !.completed_at = now]

\* run_job has returned the job (it returns normally also for a failed stage)
JobReturned(job) == job.status \in {COMPLETED, FAILED}

\* one pass of the for loop from its top to the await in _run_stage, with a
\* progress callback that may raise: the job it leaves and how run_job goes on
StageTop(job, stage, callback_raises, render_ok) ==
    IF callback_raises
    THEN [job |-> JobExcept([job EXCEPT !.current_stage = stage]),
          out |-> "RuntimeError(Job execution failed)"]
    ELSE LET j1 == BeginStage(job, stage, render_ok) IN
         [job |-> j1, out |-> IF JobReturned(j1) THEN "job" ELSE "await"]

\* run_job from the return of generate_with_retry to the next await, to its
\* return or to its raise; started_at is result.started_at of the stage
AfterStage(job, outcome, started_at, callback_raises, render_ok) ==
    LET stage == job.current_stage
        j1 == RecordStage(job, stage, StageResultOf(outcome, started_at)) IN
    IF j1.status = FAILED THEN [job |-> j1, out |-> "job"]
    ELSE IF StageIndex(stage) = Len(STAGE_ORDER)
    THEN IF callback_raises
         THEN [job |-> JobExcept(FinishJob(j1)),
               out |-> "RuntimeError(Job execution failed)"]
         ELSE [job |-> FinishJob(j1), out |-> "job"]
    ELSE StageTop(j1, STAGE_ORDER[StageIndex(stage) + 1], callback_raises, render_ok)

\* AfterStage of a run_job call without a progress callback, in a
\* specification where the clock stands still
AfterModel(job, outcome, render_ok) ==
    AfterStage(job, outcome, now, FALSE, render_ok).job

create_job ==
    /\ LoopIdle
    /\ Len(jobs) < MaxJobs
    /\ jobs' = Append(jobs, NewJob)
    /\ UNCHANGED <<tasks, queues, running_tasks, worker_task, shutdown_event,
                   worker_pc, stop_pc, loop_ready, op_pc, ret, started, dispatch_began>>
    /\ UNCHANGED <<now, flows, arg, res, orphans, files,
        file_metadata, disk, waiters>>

\* _run_task of a task whose operation is run_job(job_id): from its start
\* through run_job up to the first await (or to the end of _run_task when
\* run_job raises or returns before it awaits)
run_job_task_start(render_ok) ==
    /\ LoopIdle
    /\ loop_ready # <<>>
    /\ LET task_id == Head(loop_ready)
           job_id == tasks[task_id].job
           t1 == MarkRunning(tasks[task_id]) IN
       /\ job_id # 0
       /\ started' = Append(started, task_id)
       /\ IF job_id \notin DOMAIN jobs
          THEN /\ tasks' = [tasks EXCEPT ![task_id] = AfterExcept(t1, "ValueError")]
               /\ op_pc' = [op_pc EXCEPT ![task_id] = "done"]
               /\ UNCHANGED <<running_tasks, jobs>>
          ELSE IF Blocked(jobs[job_id].status)
          THEN /\ tasks' = [tasks EXCEPT ![task_id] = AfterExcept(t1, "RuntimeError")]
               /\ op_pc' = [op_pc EXCEPT ![task_id] = "done"]
               /\ UNCHANGED <<running_tasks, jobs>>
          ELSE LET j1 == BeginStage(EnterJob(jobs[job_id]), STAGE_ORDER[1], render_ok) IN
               /\ jobs' = [jobs EXCEPT ![job_id] = j1]
               /\ IF JobReturned(j1)
                  THEN /\ tasks' = [tasks EXCEPT ![task_id] = AfterReturn(t1, "job")]
                       /\ op_pc' = [op_pc EXCEPT ![task_id] = "done"]
                       /\ UNCHANGED running_tasks
                  ELSE /\ tasks' = [tasks EXCEPT ![task_id] = t1]
                       /\ op_pc' = [op_pc EXCEPT ![task_id] = "awaiting"]
                       /\ running_tasks' = running_tasks \cup {task_id}
    /\ loop_ready' = Tail(loop_ready)
    /\ UNCHANGED <<queues, worker_task, shutdown_event, worker_pc, stop_pc, ret,
                   dispatch_began>>
    /\ UNCHANGED <<now, flows, arg, res, orphans, files,
        file_metadata, disk, waiters>>

\* the model call of the stage in progress ends; run_job goes on to its next
\* await, or returns and _run_task ends
model_return(task_id, outcome, render_ok) ==
    /\ LoopIdle
    /\ task_id \in DOMAIN tasks
    /\ op_pc[task_id] = "awaiting"
    /\ tasks[task_id].job # 0
    /\ LET job_id == tasks[task_id].job
           j1 == AfterModel(jobs[job_id], outcome, render_ok) IN
       /\ jobs' = [jobs EXCEPT ![job_id] = j1]
       /\ IF JobReturned(j1)
          THEN /\ tasks' = [tasks EXCEPT ![task_id] = AfterReturn(@, "job")]
               /\ Finally(task_id)
          ELSE UNCHANGED <<tasks, running_tasks, op_pc>>
    /\ UNCHANGED <<queues, worker_task, shutdown_event, worker_pc, stop_pc,
                   loop_ready, ret, started, dispatch_began>>
    /\ UNCHANGED <<now, flows, arg, res, orphans, files,
        file_metadata, disk, waiters>>

\* asyncio.wait_for gave up on run_job after task.timeout seconds: it cancels
\* run_job, whose except Exception clauses (in _run_stage and in run_job) let
\* the CancelledError pass, and raises TimeoutError in _run_task
job_timeout_elapse(task_id) ==
    /\ LoopIdle
    /\ task_id \in DOMAIN tasks
    /\ op_pc[task_id] = "awaiting"
    /\ tasks[task_id].job # 0
    /\ Truthy(tasks[task_id].timeout)
    /\ tasks' = [tasks EXCEPT ![task_id] = AfterExcept(@, AsyncioTimeoutError)]
    /\ Finally(task_id)
    /\ UNCHANGED <<queues, worker_task, shutdown_event, worker_pc, stop_pc,
                   loop_ready, ret, started, dispatch_began, jobs>>
    /\ UNCHANGED <<now, flows, arg, res, orphans, files,
        file_metadata, disk, waiters>>

\* ------------------------------------------------- run_job called directly
\* the direct call c of run_job(job_id, progress_callback): from the call to the
\* first await, or to its end when it raises or returns before it awaits
run_job(c, job_id, callback_raises, render_ok) ==
    /\ flows[c].job = 0
    /\ IF job_id \notin DOMAIN jobs
       THEN /\ ret' = "ValueError"
            /\ flows' = [flows EXCEPT ![c] = Over]
            /\ UNCHANGED jobs
       ELSE IF Blocked(jobs[job_id].status)
       THEN /\ ret' = "RuntimeError"
            /\ flows' = [flows EXCEPT ![c] = Over]
            /\ UNCHANGED jobs
       ELSE LET x == StageTop(EnterJob(jobs[job_id]), STAGE_ORDER[1],
                              callback_raises, render_ok) IN
            /\ jobs' = [jobs EXCEPT ![job_id] = x.job]
            /\ IF x.out = "await"
               THEN /\ flows' = [flows EXCEPT ![c] = [job |-> job_id, started_at |-> now]]
                    /\ ret' = ret
               ELSE /\ ret' = x.out
                    /\ flows' = [flows EXCEPT ![c] = Over]
    /\ UNCHANGED <<tasks, queues, running_tasks, worker_task, shutdown_event,
                   worker_pc, stop_pc, loop_ready, op_pc, started, dispatch_began,
                   now, arg, res, orphans, files,
        file_metadata, disk, waiters>>

\* the model call of the stage in progress of call c ends; run_job goes on
\* to the next await, returns or raises
stage_return(c, outcome, callback_raises, render_ok) ==
    /\ flows[c].job \in DOMAIN jobs
    /\ LET job_id == flows[c].job
           x == AfterStage(jobs[job_id], outcome, flows[c].started_at,
                           callback_raises, render_ok) IN
       /\ jobs' = [jobs EXCEPT ![job_id] = x.job]
       /\ IF x.out = "await"
          THEN /\ flows' = [flows EXCEPT ![c].started_at = now]
               /\ ret' = ret
          ELSE /\ flows' = [flows EXCEPT ![c] = Over]
               /\ ret' = x.out
    /\ UNCHANGED <<tasks, queues, running_tasks, worker_task, shutdown_event,
                   worker_pc, stop_pc, loop_ready, op_pc, started, dispatch_began,
                   now, arg, res, orphans, files,
        file_metadata, disk, waiters>>

\* bool(job.final_result)
HasResult(job) == job.final_result # None

\* what json.dumps and the writing of the file can come to: both succeed,
\* json.dumps raises, or mkdir, open or write raises
WriteOutcomes == {"ok", "dumps_error", "write_error"}

\* variant: serialize never validates
MustValidate_Never(validate) == FALSE

\* if validate: (validate is self.validate_results of the engine)
MustValidate(validate) == validate

\* ProtocolSerializer.serialize(job.final_result, output_path, validate=...)
\* for the output path of job job_id; passes is is_valid of
\* validate_complete(job.final_result). A write that raises may have created
\* the file already.
serialize(job_id, validate, passes, io) ==
    IF MustValidate(validate) /\ ~passes
    THEN ret' = "SerializationError" /\ UNCHANGED files
    ELSE IF io = "dumps_error"
    THEN ret' = "SerializationError" /\ UNCHANGED files
    ELSE IF io = "write_error"
    THEN ret' = "SerializationError" /\ files' \in {files, files \cup {job_id}}
    ELSE ret' = None /\ files' = files \cup {job_id}

\* save_result(job_id, output_path) of an engine constructed with
\* validate_results = validate
save_result(job_id, validate, passes, io) ==
    /\ IF job_id \notin DOMAIN jobs
       THEN ret' = "ValueError" /\ UNCHANGED files
       ELSE IF jobs[job_id].status # COMPLETED
       THEN ret' = "RuntimeError" /\ UNCHANGED files
       ELSE IF ~HasResult(jobs[job_id])
       THEN ret' = "RuntimeError" /\ UNCHANGED files
       ELSE serialize(job_id, validate, passes, io)
    /\ UNCHANGED <<tasks, queues, running_tasks, worker_task, shutdown_event,
                   worker_pc, stop_pc, loop_ready, op_pc, started, dispatch_began,
                   jobs, now, flows, arg, res, orphans, file_metadata, disk,
                   waiters>>

\* the wall clock is seen to advance
Tick ==
    /\ now < MaxClock
    /\ now' = now + 1
    /\ UNCHANGED <<tasks, queues, running_tasks, worker_task, shutdown_event,
                   worker_pc, stop_pc, loop_ready, op_pc, ret, started,
                   dispatch_began, jobs, flows, arg, res, orphans, files,
        file_metadata, disk, waiters>>

\* ----------------------------------------------------------- _merge_results
\* top-level keys a stage payload can have, the seeded ones among them
PayloadKeyPool == <<"code_structure", "concurrency_info", "execution_trace">>

PayloadKeys == {PayloadKeyPool[i] : i \in 1..MaxPayloadKeys}

\* the payload of a stage with the top-level keys ks, each value marked with
\* the stage it comes from
StagePayload(stage, ks) == [k \in ks |-> stage]

\* the dict merged starts as
MergeSeed ==
    [k \in {"$schema", "version", "project_metadata", "code_structure",
            "execution_trace"} |->
        IF k = "$schema" THEN "https://aiflow.dev/schemas/analysis-v1.0.0.json"
        ELSE IF k = "version" THEN "1.0.0"
        ELSE "seed"]

\* variant: update that keeps the value a key already has
dict_update_KeepExisting(merged, data) ==
    [k \in DOMAIN merged \cup DOMAIN data |->
        IF k \in DOMAIN merged THEN merged[k] ELSE data[k]]

\* merged.update(data)
dict_update(merged, data) ==
    [k \in DOMAIN merged \cup DOMAIN data |->
        IF k \in DOMAIN data THEN data[k] ELSE merged[k]]

\* the for loop of _merge_results over the stages from index i on
RECURSIVE MergeFrom(_, _, _)
MergeFrom(merged, stage_data, i) ==
    IF i > Len(STAGE_ORDER) THEN merged
    ELSE LET data == stage_data[STAGE_ORDER[i]] IN
         MergeFrom(IF DOMAIN data # {} THEN dict_update(merged, data) ELSE merged,
                   stage_data, i + 1)

\* _merge_results(job), stage_data[stage] being job.stage_results[stage].data
merge_results(stage_data) == MergeFrom(MergeSeed, stage_data, 1)

\* a call of _merge_results
call_merge_results ==
    /\ res = <<>>
    /\ res' = <<merge_results(arg)>>
    /\ UNCHANGED <<program, arg>>

\* --------------------------------------------------------- ValidationResult
\* ValidationResult()
ValidationResult == [is_valid |-> TRUE, errors |-> <<>>, warnings |-> <<>>]

\* ValidationResult.add_error
add_error(result, message) ==
    [result EXCEPT !.is_valid = FALSE, !.errors = Append(@, message)]

\* variant: a warning makes the result invalid
add_warning_Invalidates(result, message) ==
    [result EXCEPT !.is_valid = FALSE, !.warnings = Append(@, message)]

\* ValidationResult.add_warning
add_warning(result, message) == [result EXCEPT !.warnings = Append(@, message)]

\* for error in errors: result.add_error(f"{prefix}: {error}")
RECURSIVE AddErrors(_, _, _)
AddErrors(result, prefix, errors) ==
    IF errors = <<>> THEN result
    ELSE AddErrors(add_error(result, <<prefix, Head(errors)>>), prefix, Tail(errors))

\* for warning in warnings: result.add_warning(f"{prefix}: {warning}")
RECURSIVE AddWarnings(_, _, _)
AddWarnings(result, prefix, warnings) ==
    IF warnings = <<>> THEN result
    ELSE AddWarnings(add_warning(result, <<prefix, Head(warnings)>>), prefix,
                     Tail(warnings))

\* the list of n messages a check returns
Messages(n) == [i \in 1..n |-> i]

\* what the five checks return for a document: the lists of _validate_schema,
\* _validate_timestamps, _validate_uuids, _validate_references (errors and
\* warnings) and _validate_execution_order
CheckOutputs ==
    {[schema |-> Messages(a), timestamps |-> Messages(b), uuids |-> Messages(c),
      ref_errors |-> Messages(d), ref_warnings |-> Messages(e),
      order |-> Messages(f)] :
        a \in 0..MaxCheckErrors, b \in 0..MaxCheckErrors, c \in 0..MaxCheckErrors,
        d \in 0..MaxCheckErrors, e \in 0..MaxCheckErrors, f \in 0..MaxCheckErrors}

SkippedWarning == <<"Skipping advanced validation due to schema errors">>

\* variant: schema errors never end the validation early
SchemaFailed_Never(schema_errors) == FALSE

\* if schema_errors:
SchemaFailed(schema_errors) == schema_errors # <<>>

\* validate_complete(data), checks being what the five checks return for data
validate_complete(checks) ==
    LET r1 == AddErrors(ValidationResult, "Schema validation", checks.schema) IN
    IF SchemaFailed(checks.schema) THEN add_warning(r1, SkippedWarning)
    ELSE LET r2 == AddErrors(r1, "Timestamp validation", checks.timestamps)
             r3 == AddErrors(r2, "UUID validation", checks.uuids)
             r4 == AddErrors(r3, "Reference integrity", checks.ref_errors)
             r5 == AddWarnings(r4, "Reference integrity", checks.ref_warnings) IN
         AddErrors(r5, "Execution order", checks.order)

\* result = ValidationResult() in the code of a caller
new_ValidationResult ==
    /\ res = <<>>
    /\ res' = <<ValidationResult>>
    /\ UNCHANGED <<program, arg>>

\* result.add_error(message) in the code of a caller
call_add_error ==
    /\ res # <<>>
    /\ Len(res[1].errors) + Len(res[1].warnings) < MaxMessages
    /\ res' = <<add_error(res[1], <<"error", 1>>)>>
    /\ UNCHANGED <<program, arg>>

\* result.add_warning(message) in the code of a caller
call_add_warning ==
    /\ res # <<>>
    /\ Len(res[1].errors) + Len(res[1].warnings) < MaxMessages
    /\ res' = <<add_warning(res[1], <<"warning", 1>>)>>
    /\ UNCHANGED <<program, arg>>

\* result = validator.validate_complete(data)
call_validate_complete ==
    /\ res = <<>>
    /\ res' = <<validate_complete(arg)>>
    /\ UNCHANGED <<program, arg>>

\* ----------------------------------------------------- _validate_references
\* the ids of a report: its one node, traceable unit, variable scope, stack
\* frame and concurrency flow, and an id that nothing has
RefIds == {"n", "u", "s", "f", "w", "zz"}

\* what a reference field holds: an id, or nothing
RefValues == RefIds \cup {None}

\* the fields that refer to an entry of another collection
HardKinds ==
    {"edges.source", "edges.target", "nodes.parent", "steps.scope_id",
     "variableScopes.parent_scope_id", "callStack.local_scope_id",
     "callStack.parent_frame_id", "flows.start_point", "flows.end_point",
     "sync_points.waiting_flows"}

\* the lists of at most MaxRefs reference values
RefLists == UNION {[1..n -> RefValues] : n \in 0..MaxRefs}

\* the values a flow's involved_units list can have
InvolvedLists == {<<>>} \cup {<<id>> : id \in RefIds}

\* a report with one node n, one traceable unit u holding a step-by-step
\* trace with scope s and frame f, and one flow w; after them come entries,
\* one for each element of refs, whose field of the given kind holds that
\* element; the flow w has the given involved_units
Report(kind, refs, involved) ==
    LET Of(kinds) == IF kind \in kinds THEN refs ELSE <<>>
        Field(k, i) == IF kind = k THEN refs[i] ELSE None IN
    [nodes |-> <<[id |-> "n", parent |-> None]>>
               \o [i \in 1..Len(Of({"nodes.parent"})) |->
                      [id |-> None, parent |-> refs[i]]],
     edges |-> [i \in 1..Len(Of({"edges.source", "edges.target"})) |->
                   [source |-> Field("edges.source", i),
                    target |-> Field("edges.target", i)]],
     traceable_units |->
        <<[id |-> "u",
           traces |->
              <<[format |-> "step-by-step",
                 steps |-> [i \in 1..Len(Of({"steps.scope_id"})) |->
                               [scope_id |-> refs[i]]],
                 variableScopes |->
                    <<[id |-> "s", parent_scope_id |-> None]>>
                    \o [i \in 1..Len(Of({"variableScopes.parent_scope_id"})) |->
                           [id |-> None, parent_scope_id |-> refs[i]]],
                 callStack |->
                    <<[id |-> "f", local_scope_id |-> None, parent_frame_id |-> None]>>
                    \o [i \in 1..Len(Of({"callStack.local_scope_id",
                                         "callStack.parent_frame_id"})) |->
                           [id |-> None,
                            local_scope_id |-> Field("callStack.local_scope_id", i),
                            parent_frame_id |-> Field("callStack.parent_frame_id", i)]]]>>]>>,
     flows |-> <<[id |-> "w", start_point |-> None, end_point |-> None,
                  involved_units |-> involved]>>
               \o [i \in 1..Len(Of({"flows.start_point", "flows.end_point"})) |->
                      [id |-> None, start_point |-> Field("flows.start_point", i),
                       end_point |-> Field("flows.end_point", i),
                       involved_units |-> <<>>]],
     sync_points |-> [i \in 1..Len(Of({"sync_points.waiting_flows"})) |->
                         [waiting_flows |-> IF refs[i] = None THEN <<>>
                                            ELSE <<refs[i]>>]]]

\* the concatenation of a sequence of sequences
RECURSIVE Flatten(_)
Flatten(seqs) == IF seqs = <<>> THEN <<>> ELSE Head(seqs) \o Flatten(Tail(seqs))

\* the truth value Python gives an id or None
IsSet(value) == value \notin {None, ""}

\* the ids collected from a collection: {e.get("id") for e in entries if id}
IdsOf(entries) == {entries[i].id : i \in {n \in 1..Len(entries) : IsSet(entries[n].id)}}

\* the message for a reference to a missing entry: the path of the field
\* with the 0-based indexes in it, and the id
RefMessage(path, idx, id) == [path |-> path, idx |-> idx, id |-> id]

\* variant: one set of ids for the whole report, so that a reference to an
\* entry of another collection passes
Missing_FromReport(value, ids) == IsSet(value) /\ value \notin RefIds \ {"zz"}

\* value and value not in ids
Missing(value, ids) == IsSet(value) /\ value \notin ids

\* if value and value not in ids: errors.append(...)
CheckRef(path, idx, value, ids) ==
    IF Missing(value, ids) THEN <<RefMessage(path, idx, value)>> ELSE <<>>

\* for id in values: if id not in ids: out.append(...)
CheckList(path, idx, values, ids) ==
    Flatten([n \in 1..Len(values) |->
                IF values[n] \notin ids THEN <<RefMessage(path, idx, values[n])>>
                ELSE <<>>])

\* the scopes, or the frames, of all step-by-step traces of all units
AllOfTraces(data, field) ==
    Flatten([u \in 1..Len(data.traceable_units) |->
        Flatten([t \in 1..Len(data.traceable_units[u].traces) |->
            LET trace == data.traceable_units[u].traces[t] IN
            IF trace.format = "step-by-step" THEN trace[field] ELSE <<>>])])

\* _validate_references(data): the pair errors, warnings
validate_references_lists(data) ==
    LET node_ids == IdsOf(data.nodes)
        traceable_unit_ids == IdsOf(data.traceable_units)
        scope_ids == IdsOf(AllOfTraces(data, "variableScopes"))
        frame_ids == IdsOf(AllOfTraces(data, "callStack"))
        flow_ids == IdsOf(data.flows)
        edge_errors ==
            Flatten([i \in 1..Len(data.edges) |->
                CheckRef("edges.source", <<i - 1>>, data.edges[i].source, node_ids)
                \o CheckRef("edges.target", <<i - 1>>, data.edges[i].target, node_ids)])
        node_errors ==
            Flatten([i \in 1..Len(data.nodes) |->
                CheckRef("nodes.parent", <<i - 1>>, data.nodes[i].parent, node_ids)])
        TraceErrors(u, t) ==
            LET trace == data.traceable_units[u].traces[t] IN
            IF trace.format # "step-by-step" THEN <<>>
            ELSE Flatten([i \in 1..Len(trace.steps) |->
                     CheckRef("steps.scope_id", <<u - 1, t - 1, i - 1>>,
                              trace.steps[i].scope_id, scope_ids)])
                 \o Flatten([i \in 1..Len(trace.variableScopes) |->
                     CheckRef("variableScopes.parent_scope_id", <<u - 1, t - 1, i - 1>>,
                              trace.variableScopes[i].parent_scope_id, scope_ids)])
                 \o Flatten([i \in 1..Len(trace.callStack) |->
                     CheckRef("callStack.local_scope_id", <<u - 1, t - 1, i - 1>>,
                              trace.callStack[i].local_scope_id, scope_ids)
                     \o CheckRef("callStack.parent_frame_id", <<u - 1, t - 1, i - 1>>,
                                 trace.callStack[i].parent_frame_id, frame_ids)])
        trace_errors ==
            Flatten([u \in 1..Len(data.traceable_units) |->
                Flatten([t \in 1..Len(data.traceable_units[u].traces) |->
                    TraceErrors(u, t)])])
        flow_errors ==
            Flatten([i \in 1..Len(data.flows) |->
                CheckRef("flows.start_point", <<i - 1>>, data.flows[i].start_point, node_ids)
                \o CheckRef("flows.end_point", <<i - 1>>, data.flows[i].end_point, node_ids)])
        sync_errors ==
            Flatten([i \in 1..Len(data.sync_points) |->
                CheckList("sync_points.waiting_flows", <<i - 1>>,
                          data.sync_points[i].waiting_flows, flow_ids)])
        warnings ==
            Flatten([i \in 1..Len(data.flows) |->
                CheckList("flows.involved_units", <<i - 1>>,
                          data.flows[i].involved_units, traceable_unit_ids)]) IN
    [errors |-> edge_errors \o node_errors \o trace_errors \o flow_errors \o sync_errors,
     warnings |-> warnings]

\* for m in messages: result.add_error(m), or add_warning when soft
RECURSIVE AddEach(_, _, _)
AddEach(result, messages, soft) ==
    IF messages = <<>> THEN result
    ELSE AddEach(IF soft THEN add_warning(result, Head(messages))
                 ELSE add_error(result, Head(messages)),
                 Tail(messages), soft)

\* validate_references(data)
validate_references(data) ==
    LET lists == validate_references_lists(data) IN
    AddEach(AddEach(ValidationResult, lists.errors, FALSE), lists.warnings, TRUE)

\* result = validator.validate_references(data)
call_validate_references ==
    /\ res = <<>>
    /\ res' = <<validate_references(arg)>>
    /\ UNCHANGED <<program, arg>>

\* ------------------------------------------------ _validate_execution_order
\* the execution_order of an entry that has none: entry.get("execution_order")
\* is None
NoOrder == -1

\* what an execution_order field holds
OrderValues == {NoOrder} \cup 1..MaxOrder

\* the entries of a collection, from their execution_order values
Entries(orders) == [i \in 1..Len(orders) |-> [execution_order |-> orders[i]]]

\* a trace with the given execution_order values
Trace(format, steps, scopes, frames) ==
    [format |-> format, steps |-> Entries(steps),
     variableScopes |-> Entries(scopes), callStack |-> Entries(frames)]

\* the traces the first trace of a report is drawn from: at most MaxOrders
\* steps, at most one scope and one frame
FirstTraces ==
    {Trace("step-by-step", steps, scopes, frames) :
        steps \in UNION {[1..n -> OrderValues] : n \in 0..MaxOrders},
        scopes \in UNION {[1..n -> OrderValues] : n \in 0..1},
        frames \in UNION {[1..n -> OrderValues] : n \in 0..1}}

\* the traces the second trace of a report is drawn from: one in order, one
\* with a repeated value, one descending across its collections, and one
\* that is not step-by-step
SecondTraces ==
    {Trace("step-by-step", <<1>>, <<2>>, <<>>),
     Trace("step-by-step", <<1>>, <<>>, <<1>>),
     Trace("step-by-step", <<2>>, <<1>>, <<>>),
     Trace("flowchart", <<2, 1, 1>>, <<>>, <<>>)}

\* a report with the two traces, in one traceable unit or in two
OrderReport(first, second, split) ==
    [traceable_units |->
        IF split THEN <<[traces |-> <<first>>], [traces |-> <<second>>]>>
        ELSE <<[traces |-> <<first, second>>]>>]

\* for entry in entries: order = entry.get("execution_order");
\* if order is not None: execution_orders.append(order)
OrdersOf(entries) ==
    LET set == SelectSeq(entries, LAMBDA entry : entry.execution_order # NoOrder) IN
    [i \in 1..Len(set) |-> set[i].execution_order]

\* variant: only the steps are looked at
execution_orders_StepsOnly(trace) == OrdersOf(trace.steps)

\* the execution_orders list of a trace
execution_orders(trace) ==
    OrdersOf(trace.steps) \o OrdersOf(trace.variableScopes) \o OrdersOf(trace.callStack)

\* sorted(): insertion of each element into the sorted rest
RECURSIVE Insert(_, _)
Insert(x, seq) ==
    IF seq = <<>> THEN <<x>>
    ELSE IF x <= Head(seq) THEN <<x>> \o seq
    ELSE <<Head(seq)>> \o Insert(x, Tail(seq))

RECURSIVE sorted(_)
sorted(seq) == IF seq = <<>> THEN <<>> ELSE Insert(Head(seq), sorted(Tail(seq)))

\* set(seq)
SetOf(seq) == {seq[i] : i \in DOMAIN seq}

\* seq.count(x)
count(seq, x) == Cardinality({i \in DOMAIN seq : seq[i] = x})

\* the two messages: the trace's indexes, the kind, and for duplicates the
\* set of values
DuplicateMessage(u, t, values) ==
    [unit |-> u, trace |-> t, kind |-> "Duplicate execution_order values found", values |-> values]

OrderMessage(u, t) ==
    [unit |-> u, trace |-> t,
     kind |-> "execution_order values are not monotonically increasing", values |-> {}]

\* the body of the loop for one trace
TraceOrderErrors(u, t, trace) ==
    IF trace.format # "step-by-step" THEN <<>>
    ELSE LET orders == execution_orders(trace)
             duplicates == SelectSeq(orders, LAMBDA order : count(orders, order) > 1) IN
         (IF Len(orders) # Cardinality(SetOf(orders))
          THEN <<DuplicateMessage(u - 1, t - 1, SetOf(duplicates))>> ELSE <<>>)
         \o (IF orders # sorted(orders) THEN <<OrderMessage(u - 1, t - 1)>> ELSE <<>>)

\* _validate_execution_order(data)
validate_execution_order(data) ==
    Flatten([u \in 1..Len(data.traceable_units) |->
        Flatten([t \in 1..Len(data.traceable_units[u].traces) |->
            TraceOrderErrors(u, t, data.traceable_units[u].traces[t])])])

\* errors = validator._validate_execution_order(data)
call_validate_execution_order ==
    /\ res = <<>>
    /\ res' = <<validate_execution_order(arg)>>
    /\ UNCHANGED <<program, arg>>

\* -------------------------------------------------- ProtocolSerializer
\* Python values, tagged with their type: v is the text of a scalar, the
\* items of a list or tuple, the (key, value) pairs of a dict
PyValue(t, v) == [t |-> t, v |-> v]

\* the scalars of a report: a str, an int, a float and None
Scalars ==
    {PyValue("str", "a"), PyValue("int", "1"), PyValue("float", "1.0"),
     PyValue("NoneType", "None")}

\* the keys of a dict: a str and an int
Keys == {PyValue("str", "1"), PyValue("int", "1"), PyValue("str", "k")}

\* a (key, value) pair of a dict
Pair(k, x) == [k |-> k, x |-> x]

\* the sequences of at most MaxItems elements of a set
UpTo(S) == UNION {[1..n -> S] : n \in 0..MaxItems}

\* the dicts with at most MaxItems scalar values; a dict has no key twice
Dicts ==
    {PyValue("dict", pairs) :
        pairs \in {ps \in UpTo({Pair(k, x) : k \in Keys, x \in Scalars}) :
                      \A i, j \in DOMAIN ps : i # j => ps[i].k # ps[j].k}}

\* the values held by a report: scalars, and lists, tuples and dicts of them
Values ==
    Scalars
    \cup {PyValue("list", items) : items \in UpTo(Scalars)}
    \cup {PyValue("tuple", items) : items \in UpTo(Scalars)}
    \cup Dicts

\* the report {"value": x}
ReportOf(x) == PyValue("dict", <<Pair(PyValue("str", "value"), x)>>)

\* JSON texts, as the tree of their tokens
Json(t, v) == [t |-> t, v |-> v]

\* json.dumps: a tuple is written as an array like a list, a key that is not
\* a str is written as the string of its text
RECURSIVE dumps(_)
dumps(value) ==
    CASE value.t = "str" -> Json("string", value.v)
      [] value.t \in {"int", "float"} -> Json("number", value.v)
      [] value.t = "NoneType" -> Json("null", "null")
      [] value.t \in {"list", "tuple"} ->
            Json("array", [i \in DOMAIN value.v |-> dumps(value.v[i])])
      [] value.t = "dict" ->
            Json("object", [i \in DOMAIN value.v |->
                               Pair(value.v[i].k.v, dumps(value.v[i].x))])

\* dict(pairs) as json.load builds it: a key that comes twice keeps its
\* first place and its last value
RECURSIVE DictOf(_, _)
DictOf(pairs, seen) ==
    IF pairs = <<>> THEN <<>>
    ELSE LET k == Head(pairs).k
             last == CHOOSE i \in DOMAIN pairs :
                        /\ pairs[i].k = k
                        /\ \A j \in DOMAIN pairs : pairs[j].k = k => j <= i IN
         IF k \in seen THEN DictOf(Tail(pairs), seen)
         ELSE <<Pair(k, pairs[last].x)>> \o DictOf(Tail(pairs), seen \cup {k})

\* the digits of a number with a fraction part
Fractions == {"1.0"}

\* json.load: an array becomes a list, the keys of an object become str, a
\* number becomes a float if it has a fraction part and an int otherwise
RECURSIVE loads(_)
loads(json) ==
    CASE json.t = "string" -> PyValue("str", json.v)
      [] json.t = "number" ->
            PyValue(IF json.v \in Fractions THEN "float" ELSE "int", json.v)
      [] json.t = "null" -> PyValue("NoneType", "None")
      [] json.t = "array" -> PyValue("list", [i \in DOMAIN json.v |-> loads(json.v[i])])
      [] json.t = "object" ->
            PyValue("dict",
                    DictOf([i \in DOMAIN json.v |->
                               Pair(PyValue("str", json.v[i].k), loads(json.v[i].x))], {}))

\* what the schema accepts: a JSON document, whose arrays are lists and
\* whose objects have str keys
RECURSIVE SchemaValid(_)
SchemaValid(value) ==
    CASE value.t \in {"str", "int", "float", "NoneType"} -> TRUE
      [] value.t = "list" -> \A i \in DOMAIN value.v : SchemaValid(value.v[i])
      [] value.t = "tuple" -> FALSE
      [] value.t = "dict" ->
            \A i \in DOMAIN value.v :
                value.v[i].k.t = "str" /\ SchemaValid(value.v[i].x)

\* the path without a file
NoFile == [exists |-> FALSE, gzip |-> FALSE, text |-> Json("null", "null")]

\* serialize(data, output_path, compress, validate=validate): the file at
\* output_path afterwards
serialize_file(data, compress, validate) ==
    IF validate /\ ~SchemaValid(data) THEN NoFile
    ELSE [exists |-> TRUE, gzip |-> compress, text |-> dumps(data)]

\* the result of a call: the value returned, or the exception raised
Returned(value) == [raised |-> None, value |-> value]
Raised(e) == [raised |-> e, value |-> PyValue("NoneType", "None")]

\* variant: a file that is not gzip is not read
deserialize_GzipOnly(file) ==
    IF ~file.exists THEN Raised("DeserializationError")
    ELSE IF file.gzip THEN Returned(loads(file.text))
    ELSE Raised("DeserializationError")

\* deserialize(input_path): gzip.open is tried first, and open when the file
\* is not gzip
deserialize(file) ==
    IF ~file.exists THEN Raised("DeserializationError")
    ELSE IF file.gzip THEN Returned(loads(file.text))
    ELSE Returned(loads(file.text))

\* serialize(report, path, compress, validate); deserialize(path)
call_round_trip ==
    /\ res = <<>>
    /\ res' = <<deserialize(serialize_file(arg.report, arg.compress, arg.validate))>>
    /\ UNCHANGED <<program, arg>>

\* ------------------------------------------------------------ FileCache
\* the digest a caller computes from the file's content: each version of the
\* file has its own
HashOf(st_mtime) == st_mtime

\* the line counts callers store
LineCounts == {10}

\* the file is written again: its mtime changes
modify_file ==
    /\ disk.st_mtime < MaxVersions
    /\ disk' = [exists |-> TRUE, st_mtime |-> disk.st_mtime + 1]
    /\ UNCHANGED <<services, file_metadata, arg, res>>

\* the file is removed: stat() raises from now on
unlink_file ==
    /\ disk.exists
    /\ disk' = [disk EXCEPT !.exists = FALSE]
    /\ UNCHANGED <<services, file_metadata, arg, res>>

\* the value a get_file_* returns for a key of the metadata
Cached(key) ==
    IF ~file_metadata.present THEN NoEntry
    ELSE IF disk.exists /\ disk.st_mtime = file_metadata.mtime THEN file_metadata[key]
    ELSE NoEntry

\* get_file_hash(file_path)
get_file_hash ==
    /\ res' = <<[op |-> "get_file_hash", value |-> Cached("hash")]>>
    /\ UNCHANGED <<services, file_metadata, disk, arg>>

\* get_file_lines(file_path)
get_file_lines ==
    /\ res' = <<[op |-> "get_file_lines", value |-> Cached("lines")]>>
    /\ UNCHANGED <<services, file_metadata, disk, arg>>

\* set_file_hash(file_path, file_hash), file_hash computed from the content
\* the file has now: the entry is replaced
set_file_hash ==
    /\ IF disk.exists
       THEN file_metadata' = [present |-> TRUE, hash |-> HashOf(disk.st_mtime),
                              lines |-> NoEntry, mtime |-> disk.st_mtime]
       ELSE UNCHANGED file_metadata
    /\ UNCHANGED <<services, disk, arg, res>>

\* set_file_lines(file_path, lines): the entry is updated, its other keys stay
set_file_lines(lines) ==
    /\ IF disk.exists
       THEN file_metadata' = [file_metadata EXCEPT !.present = TRUE,
                                                   !.lines = lines,
                                                   !.mtime = disk.st_mtime]
       ELSE UNCHANGED file_metadata
    /\ UNCHANGED <<services, disk, arg, res>>

\* ----------------------------------------------------- _prepare_stage_input
\* top-level keys of the payload of a stage
FragmentKeys == {"project_metadata", "code_structure", "dependencies"}

\* job.stage_results.get(stage): None, or a result whose data has the keys
\* ks, each value a str naming the stage it comes from; data is empty for a
\* result without payload
PrevResult(stage, has_result, ks) ==
    [has_result |-> has_result, data |-> [k \in ks |-> PyValue("str", stage)]]

\* prev_result and prev_result.data
HasData(prev_result) == prev_result.has_result /\ DOMAIN prev_result.data # {}

\* json.dumps(prev_result.data.get(key, {}), ensure_ascii=False)
Fragment(prev_result, key) ==
    dumps(IF key \in DOMAIN prev_result.data THEN prev_result.data[key]
          ELSE PyValue("dict", <<>>))

\* input_data[key] = value
SetItem(input_data, key, value) ==
    [k \in DOMAIN input_data \cup {key} |-> IF k = key THEN value ELSE input_data[k]]

\* the body of the for loop of the semantic-analysis branch
AddFragments(input_data, prev_result) ==
    IF HasData(prev_result)
    THEN SetItem(SetItem(input_data, "project_metadata_json",
                         Fragment(prev_result, "project_metadata")),
                 "code_structure_json", Fragment(prev_result, "code_structure"))
    ELSE input_data

\* the input_data every stage starts from
BaseInput == [k \in {"project_path", "project_name"} |-> Json("string", k)]

\* _prepare_stage_input(job, stage), stage_results being job.stage_results
prepare_stage_input(stage_results, stage) ==
    IF stage = "project_understanding"
    THEN [k \in DOMAIN BaseInput
                \cup {"file_tree", "current_timestamp_iso8601", "ai_model_name"} |->
             Json("string", k)]
    ELSE IF stage = "structure_recognition"
    THEN IF HasData(stage_results["project_understanding"])
         THEN SetItem(BaseInput, "project_metadata_json",
                      Fragment(stage_results["project_understanding"], "project_metadata"))
         ELSE BaseInput
    ELSE IF stage = "semantic_analysis"
    THEN AddFragments(AddFragments(BaseInput, stage_results["project_understanding"]),
                      stage_results["structure_recognition"])
    ELSE BaseInput

\* a call of _prepare_stage_input
call_prepare_stage_input ==
    /\ res = <<>>
    /\ res' = <<prepare_stage_input(arg.stage_results, arg.stage)>>
    /\ UNCHANGED <<program, arg>>

\* ------------------------------------------------------ generate_with_retry
\* the exceptions generate raises: AIAdapterError and its subclasses
FatalErrors == {"AuthenticationError", "InvalidRequestError", "ModelNotFoundError"}
AdapterErrors == {"AIAdapterError", "RateLimitError"} \cup FatalErrors

\* what one call of generate comes to: a response, or one of the exceptions
GenerateOutcomes == {"AIResponse"} \cup AdapterErrors

\* the result of generate_with_retry: the number of generate calls made, the
\* attempt whose response is returned (0 if none) and the exception raised
RetryResult(calls, returned, raised) ==
    [calls |-> calls, returned |-> returned, raised |-> raised]

\* variant: every adapter error is retried
RECURSIVE Attempts_RetryAll(_, _, _)
Attempts_RetryAll(attempt, max_retries, outcomes) ==
    IF attempt >= max_retries
    THEN RetryResult(attempt, 0, "AIAdapterError")
    ELSE LET outcome == outcomes[attempt + 1] IN
         IF outcome = "AIResponse" THEN RetryResult(attempt + 1, attempt + 1, None)
         ELSE IF attempt < max_retries - 1
         THEN Attempts_RetryAll(attempt + 1, max_retries, outcomes)
         ELSE RetryResult(attempt + 1, 0, outcome)

\* the for loop from the iteration attempt on (attempt counts from 0);
\* outcomes[k] is what the k-th call of generate comes to
RECURSIVE Attempts(_, _, _)
Attempts(attempt, max_retries, outcomes) ==
    IF attempt >= max_retries
    THEN RetryResult(attempt, 0, "AIAdapterError")
    ELSE LET outcome == outcomes[attempt + 1] IN
         IF outcome = "AIResponse" THEN RetryResult(attempt + 1, attempt + 1, None)
         ELSE IF outcome \in FatalErrors THEN RetryResult(attempt + 1, 0, outcome)
         ELSE IF attempt < max_retries - 1
         THEN Attempts(attempt + 1, max_retries, outcomes)
         ELSE RetryResult(attempt + 1, 0, outcome)

\* generate_with_retry(prompt, ...)
generate_with_retry(max_retries, outcomes) == Attempts(0, max_retries, outcomes)

\* a call of generate_with_retry
call_generate_with_retry ==
    /\ res = <<>>
    /\ res' = <<generate_with_retry(arg.max_retries, arg.outcomes)>>
    /\ UNCHANGED <<program, arg>>

\* ---------------------------------------------------------- specification
\* The scheduler hosting arbitrary operations, submitted without a timeout.
Next ==
    \/ start
    \/ \E p \in TaskPriority : submit(p, None, 0)
    \/ \E i \in TaskIds : cancel(i)
    \/ worker_wake
    \/ worker_iter
    \/ run_task_start
    \/ \E i \in TaskIds : op_return(i)
    \/ \E i \in TaskIds, e \in OpErrors : op_raise(i, e)

Spec == Init /\ [][Next]_vars

\* The scheduler started and stopped, all tasks at one priority.
NextLifecycle ==
    \/ start
    \/ \E c \in Callers : stop(c)
    \/ \E c \in Callers : stop_return(c)
    \/ \E c \in Callers : stop_timeout(c)
    \/ orphan_step
    \/ submit(NORMAL, None, 0)
    \/ \E i \in TaskIds : cancel(i)
    \/ worker_wake
    \/ worker_iter
    \/ run_task_start
    \/ \E i \in TaskIds : op_return(i)
    \/ \E i \in TaskIds, e \in OpErrors : op_raise(i, e)

SpecLifecycle == Init /\ [][NextLifecycle]_vars

\* The scheduler with per-task timeouts, all tasks at one priority.
NextTimeouts ==
    \/ start
    \/ \E t \in Timeouts : submit(NORMAL, t, 0)
    \/ \E i \in TaskIds : cancel(i)
    \/ worker_wake
    \/ worker_iter
    \/ run_task_start
    \/ \E i \in TaskIds : op_return(i)
    \/ \E i \in TaskIds, e \in OpErrors : op_raise(i, e)
    \/ \E i \in TaskIds : timeout_elapse(i)

SpecTimeouts == Init /\ [][NextTimeouts]_vars

\* The scheduler hosting run_job tasks: every submitted operation is
\* AnalysisEngine.run_job on some job id.
NextJobs ==
    \/ start
    \/ create_job
    \/ \E j \in JobIds : submit(NORMAL, None, j)
    \/ \E i \in TaskIds : cancel(i)
    \/ worker_wake
    \/ worker_iter
    \/ \E r \in BOOLEAN : run_job_task_start(r)
    \/ \E i \in TaskIds, o \in ModelOutcomes, r \in BOOLEAN : model_return(i, o, r)

SpecJobs == Init /\ [][NextJobs]_vars

\* The scheduler with callers that wait for tasks, all tasks at one priority.
NextWait ==
    \/ start
    \/ submit(NORMAL, None, 0)
    \/ \E i \in TaskIds : cancel(i)
    \/ worker_wake
    \/ worker_iter
    \/ run_task_start
    \/ \E i \in TaskIds : op_return(i)
    \/ \E i \in TaskIds, e \in OpErrors : op_raise(i, e)
    \/ \E i \in TaskIds, elapsed \in BOOLEAN : wait_for_task(i, elapsed)

SpecWait == Init /\ [][NextWait]_vars

\* The queue with one priority and get_stats() at any time.
NextStats ==
    \/ start
    \/ submit(NORMAL, None, 0)
    \/ \E i \in TaskIds : cancel(i)
    \/ worker_wake
    \/ worker_iter
    \/ run_task_start
    \/ \E i \in TaskIds : op_return(i)
    \/ \E i \in TaskIds, e \in OpErrors : op_raise(i, e)
    \/ call_get_stats

SpecStats == Init /\ [][NextStats]_vars

\* The engine with run_job awaited directly by its callers; every reading of
\* the clock gives the same time.
NextEngine ==
    \/ create_job
    \/ \E c \in Callers, j \in RunJobIds, cb \in BOOLEAN, r \in BOOLEAN :
           run_job(c, j, cb, r)
    \/ \E c \in Callers, o \in ModelOutcomes, cb \in BOOLEAN, r \in BOOLEAN :
           stage_return(c, o, cb, r)

SpecEngine == Init /\ [][NextEngine]_vars

\* The engine with save_result: one direct run_job call, and save_result
\* at any time.
NextSave ==
    \/ create_job
    \/ \E j \in RunJobIds, cb \in BOOLEAN, r \in BOOLEAN : run_job(1, j, cb, r)
    \/ \E o \in ModelOutcomes, cb \in BOOLEAN, r \in BOOLEAN : stage_return(1, o, cb, r)
    \/ \E j \in RunJobIds, validate \in BOOLEAN, passes \in BOOLEAN, io \in WriteOutcomes :
           save_result(j, validate, passes, io)

SpecSave == Init /\ [][NextSave]_vars

\* The same, with a wall clock that advances between the steps.
NextEngineClock ==
    \/ create_job
    \/ \E c \in Callers, j \in RunJobIds, cb \in BOOLEAN, r \in BOOLEAN :
           run_job(c, j, cb, r)
    \/ \E c \in Callers, o \in ModelOutcomes, cb \in BOOLEAN, r \in BOOLEAN :
           stage_return(c, o, cb, r)
    \/ Tick

SpecEngineClock == Init /\ [][NextEngineClock]_vars

\* _merge_results on its own, for every choice of five stage payloads.
InitMerge ==
    /\ Constructed
    /\ \E keys \in [AnalysisStage -> SUBSET PayloadKeys] :
           arg = [st \in AnalysisStage |-> StagePayload(st, keys[st])]
    /\ res = <<>>

NextMerge == call_merge_results

SpecMerge == InitMerge /\ [][NextMerge]_vars

\* A ValidationResult, made by its constructor or by validate_complete on a
\* document, and added to by its holder.
InitValidator ==
    /\ Constructed
    /\ arg \in CheckOutputs
    /\ res = <<>>

NextValidator ==
    \/ new_ValidationResult
    \/ call_validate_complete
    \/ call_add_error
    \/ call_add_warning

SpecValidator == InitValidator /\ [][NextValidator]_vars

\* validate_references on its own, for reports whose entries of one kind
\* refer to ids of every collection and of none.
InitReferences ==
    /\ Constructed
    /\ \E kind \in HardKinds, refs \in RefLists, involved \in InvolvedLists :
           arg = Report(kind, refs, involved)
    /\ res = <<>>

NextReferences == call_validate_references

SpecReferences == InitReferences /\ [][NextReferences]_vars

\* _validate_execution_order on its own, for reports of two traces.
InitOrder ==
    /\ Constructed
    /\ \E first \in FirstTraces, second \in SecondTraces, split \in BOOLEAN :
           arg = OrderReport(first, second, split)
    /\ res = <<>>

NextOrder == call_validate_execution_order

SpecOrder == InitOrder /\ [][NextOrder]_vars

\* serialize followed by deserialize, for the reports {"value": x}.
InitRoundTrip ==
    /\ Constructed
    /\ \E x \in Values, compress \in BOOLEAN, validate \in BOOLEAN :
           arg = [report |-> ReportOf(x), compress |-> compress, validate |-> validate]
    /\ res = <<>>

NextRoundTrip == call_round_trip

SpecRoundTrip == InitRoundTrip /\ [][NextRoundTrip]_vars

\* One FileCache and one file: callers store and read its hash and line count
\* while the file is rewritten and removed.
NextCache ==
    \/ modify_file
    \/ unlink_file
    \/ get_file_hash
    \/ get_file_lines
    \/ set_file_hash
    \/ \E lines \in LineCounts : set_file_lines(lines)

SpecCache == Init /\ [][NextCache]_vars

\* The scheduler started and never stopped, with waiting callers. The event
\* loop runs every coroutine that is ready: the dispatch loop wakes from each
\* sleep, a popped task starts, an awaited operation ends (it returns, raises
\* or is timed out) and a waiting caller polls again. The steps of the other
\* coroutines are disabled only while the dispatch loop holds the event loop,
\* hence strong fairness for them.
NextLive ==
    \/ start
    \/ \E t \in Timeouts \ {"0.0"} : submit(NORMAL, t, 0)
    \/ \E i \in TaskIds : cancel(i)
    \/ worker_wake
    \/ worker_iter
    \/ run_task_start
    \/ \E i \in TaskIds : op_return(i)
    \/ \E i \in TaskIds, e \in OpErrors : op_raise(i, e)
    \/ \E i \in TaskIds : timeout_elapse(i)
    \/ \E i \in TaskIds : wait_enter(i)
    \/ \E i \in TaskIds : wait_poll(i)

\* the operation of the task ends
op_ends(task_id) ==
    \/ op_return(task_id)
    \/ \E e \in OpErrors : op_raise(task_id, e)
    \/ timeout_elapse(task_id)

SpecLive ==
    /\ Init
    /\ [][NextLive]_vars
    /\ WF_vars(worker_wake)
    /\ WF_vars(worker_iter)
    /\ SF_vars(run_task_start)
    /\ \A i \in TaskIds : SF_vars(op_ends(i))
    /\ \A i \in TaskIds : SF_vars(wait_poll(i))

\* _prepare_stage_input for every stage and every combination of results of
\* the stages: the first two with any set of payload keys, the others with
\* or without a payload.
InitStageInput ==
    /\ Constructed
    /\ \E stage \in AnalysisStage,
          has \in [AnalysisStage -> BOOLEAN],
          k1 \in SUBSET FragmentKeys, k2 \in SUBSET FragmentKeys,
          others \in BOOLEAN :
           arg = [stage |-> stage,
                  stage_results |->
                      [st \in AnalysisStage |->
                          PrevResult(st, has[st],
                                     IF st = "project_understanding" THEN k1
                                     ELSE IF st = "structure_recognition" THEN k2
                                     ELSE IF others THEN FragmentKeys ELSE {})]]
    /\ res = <<>>

NextStageInput == call_prepare_stage_input

SpecStageInput == InitStageInput /\ [][NextStageInput]_vars

\* generate_with_retry for every max_retries up to MaxRetries and every
\* sequence of outcomes of the generate calls.
InitRetry ==
    /\ Constructed
    /\ \E max_retries \in 0..MaxRetries, outcomes \in [1..MaxRetries -> GenerateOutcomes] :
           arg = [max_retries |-> max_retries, outcomes |-> outcomes]
    /\ res = <<>>

NextRetry == call_generate_with_retry

SpecRetry == InitRetry /\ [][NextRetry]_vars

\* Jobs run by scheduler tasks with and without a task timeout.
NextJobTimeouts ==
    \/ start
    \/ create_job
    \/ \E j \in JobIds, t \in Timeouts \ {"0.0"} : submit(NORMAL, t, j)
    \/ \E i \in TaskIds : cancel(i)
    \/ worker_wake
    \/ worker_iter
    \/ \E r \in BOOLEAN : run_job_task_start(r)
    \/ \E i \in TaskIds, o \in ModelOutcomes, r \in BOOLEAN : model_return(i, o, r)
    \/ \E i \in TaskIds : job_timeout_elapse(i)

SpecJobTimeouts == Init /\ [][NextJobTimeouts]_vars

TypeOK ==
    /\ DOMAIN tasks \subseteq TaskIds
    /\ \A i \in DOMAIN tasks : tasks[i].state \in TaskState
    /\ running_tasks \subseteq DOMAIN tasks

\* ------------------------------------------------------------------ claims
Terminal == {COMPLETED, FAILED, CANCELLED, TIMEOUT}

\* the sub-queues that hold task_id
QueuesOf(task_id) == {p \in TaskPriority : InSeq(queues[p], task_id)}

\* C1: the number of task ids in running_tasks never exceeds max_concurrent.
C1_ConcurrencyBound == Cardinality(running_tasks) <= MaxConcurrent

\* C2: whenever the dispatch loop picks a task, no sub-queue of a strictly
\* higher priority holds a task; and among the tasks submitted before the
\* loop picked its first task, a task of higher priority starts before any
\* task of lower priority.
C2_PickRespectsPriority ==
    [][Len(loop_ready') > Len(loop_ready) =>
        LET picked == loop_ready'[Len(loop_ready')] IN
        \A p \in TaskPriority : p > tasks[picked].priority => queues[p] = <<>>]_vars

C2_BatchOrder ==
    \A i, j \in 1..Len(started) :
        (/\ started[i] <= dispatch_began
         /\ started[j] <= dispatch_began
         /\ tasks[started[i]].priority > tasks[started[j]].priority) => i < j

C2_PriorityOrder == C2_PickRespectsPriority /\ []C2_BatchOrder

\* a task submitted later at a higher priority has started before an earlier
\* task of lower priority, both submitted before dispatching began
C2_Witness ==
    \E i, j \in 1..Len(started) :
        /\ i < j
        /\ started[i] > started[j]
        /\ started[i] <= dispatch_began
        /\ tasks[started[i]].priority > tasks[started[j]].priority

C4_StateAgreesWithMembership ==
    LoopIdle =>
    \A i \in DOMAIN tasks :
        /\ tasks[i].state = PENDING <=> QueuesOf(i) = {tasks[i].priority}
        /\ tasks[i].state = RUNNING <=> i \in running_tasks
        /\ tasks[i].state \in Terminal => (QueuesOf(i) = {} /\ i \notin running_tasks)

\* C5: no task id is in a sub-queue and in running_tasks, none is in two
\* sub-queues, none is twice in one sub-queue.
C5_ExclusiveMembership ==
    /\ \A i \in running_tasks : QueuesOf(i) = {}
    /\ \A i \in TaskIds : Cardinality(QueuesOf(i)) <= 1
    /\ \A p \in TaskPriority : \A m, n \in 1..Len(queues[p]) :
           queues[p][m] = queues[p][n] => m = n

\* one task runs while another waits in a sub-queue
C5_Witness ==
    /\ running_tasks # {}
    /\ total_queued > 0

\* C6: cancel of a pending task returns true, leaves the task in no
\* sub-queue and in state cancelled, and the task's operation is not started
\* at any later point.
C6_CancelPendingIsExact ==
    [][\A i \in DOMAIN tasks :
        /\ (tasks[i].state = PENDING /\ cancel(i)) =>
               (/\ ret' = "True"
                /\ tasks'[i].state = CANCELLED
                /\ \A p \in TaskPriority : ~InSeq(queues'[p], i))
        /\ (tasks[i].state = CANCELLED /\ tasks[i].started_at = None) =>
               tasks'[i].started_at = None]_vars

\* C7: once a task that runs a job was cancelled, the stage in progress
\* finishes and no later stage of the job is attempted.
C7_CancelStopsAtStageBoundary ==
    [][\A i \in DOMAIN tasks :
        (/\ tasks[i].job \in DOMAIN jobs
         /\ op_pc[i] = "awaiting"
         /\ tasks[i].state = CANCELLED) =>
            jobs'[tasks[i].job].current_stage = jobs[tasks[i].job].current_stage]_vars

\* the exceptions of OpErrors that derive from Exception
OpExceptions == {AsyncioTimeoutError, OtherException}

\* C8: whatever exception the operation raises, the task ends failed with
\* that exception in its error field and leaves the running set.
C8_AnyErrorYieldsFailed ==
    [][\A i \in TaskIds, e \in OpExceptions :
        op_raise(i, e) =>
            (/\ tasks'[i].state = FAILED
             /\ tasks'[i].error = e
             /\ i \notin running_tasks')]_vars

\* the task ended in state timeout with the synthesized error, out of the
\* running set
TimedOut(task, in_running) ==
    /\ task.state = TIMEOUT
    /\ task.error = SynthTimeoutError
    /\ ~in_running

\* C9: a task with a timeout set whose operation has not finished when the
\* timeout elapses ends timed out.  A timeout of zero has elapsed as soon as
\* the operation is awaited.
C9_TimeoutYieldsTimedOut ==
    [][\A i \in DOMAIN tasks :
        /\ timeout_elapse(i) => TimedOut(tasks'[i], i \in running_tasks')
        /\ (/\ tasks[i].timeout = "0.0"
            /\ op_pc[i] = "awaiting"
            /\ op_pc'[i] = "done") => TimedOut(tasks'[i], i \in running_tasks')]_vars

\* C10: cancel of an unknown id or of a task in a terminal state returns
\* false and changes no task, no sub-queue and not the running set.
C10_CancelFalseChangesNothing ==
    [][\A i \in TaskIds :
        (cancel(i) /\ (i \notin DOMAIN tasks \/ tasks[i].state \in Terminal)) =>
            (ret' = "False" /\ UNCHANGED <<tasks, queues, running_tasks>>)]_vars

\* a cancel has just returned false while every id was known, each state of
\* the terminal set occurring among the tasks' states
C10_Witness ==
    /\ ret = "False"
    /\ Len(tasks) = MaxTasks
    /\ \A i \in DOMAIN tasks : tasks[i].state \in Terminal
    /\ \E i \in DOMAIN tasks : tasks[i].state = TIMEOUT

C12_WaitTimeoutLeavesTask ==
    [][\A i \in TaskIds :
        wait_for_task(i, TRUE) /\ ret' = AsyncioTimeoutError =>
            /\ i \in DOMAIN tasks
            /\ tasks'[i] = tasks[i]
            /\ tasks'[i].state \in {PENDING, RUNNING}
            /\ QueuesOf(i)' = QueuesOf(i)
            /\ (i \in running_tasks') = (i \in running_tasks)
            /\ UNCHANGED <<tasks, queues, running_tasks, loop_ready, op_pc>>]_vars

\* a wait on the only task timed out, and the task completed afterwards
C12_Witness ==
    /\ ret = AsyncioTimeoutError
    /\ Len(tasks) = 1
    /\ tasks[1].state = COMPLETED
    /\ tasks[1].result = "result"

\* the stages of a job that have an entry in job.stage_results
Recorded(job) == {st \in AnalysisStage : job.stage_results[st] # Absent}

\* C13: in every reachable state of a job the stages with a recorded outcome
\* form a prefix of the fixed order, every recorded outcome except possibly
\* the last is completed, and the recorded start times are in that order.
C13_StagePrefix ==
    \A j \in DOMAIN jobs :
        LET job == jobs[j]
            n == Cardinality(Recorded(job)) IN
        /\ Recorded(job) = {STAGE_ORDER[i] : i \in 1..n}
        /\ \A i \in 1..(n - 1) : job.stage_results[STAGE_ORDER[i]].status = COMPLETED
        /\ \A i \in 1..(n - 1) :
               job.stage_results[STAGE_ORDER[i]].started_at
                   <= job.stage_results[STAGE_ORDER[i + 1]].started_at

\* C14: when a stage's outcome is failed, run_job sets the job failed with
\* current_stage equal to that stage and returns; no later stage is attempted
\* or gets an outcome in that run.
C14_FailedStageHalts ==
    [][\A j \in DOMAIN jobs, st \in AnalysisStage :
        (/\ jobs'[j].stage_results[st] # jobs[j].stage_results[st]
         /\ jobs'[j].stage_results[st].status = FAILED) =>
            /\ jobs'[j].status = FAILED
            /\ jobs'[j].current_stage = st
            /\ ret' = "job"
            /\ \A c \in Callers : flows'[c].job # j
            /\ \A later \in AnalysisStage :
                   StageIndex(later) > StageIndex(st) =>
                       jobs'[j].stage_results[later] = jobs[j].stage_results[later]]_vars

\* the third stage got text that is not JSON: the run is over, the job failed
\* at that stage, and the fourth and fifth stages have no outcome
C14_Witness ==
    /\ Len(jobs) = 1
    /\ jobs[1].status = FAILED
    /\ jobs[1].current_stage = STAGE_ORDER[3]
    /\ jobs[1].stage_results[STAGE_ORDER[3]].status = FAILED
    /\ jobs[1].stage_results[STAGE_ORDER[3]].error = "Invalid JSON response: "
    /\ jobs[1].stage_results[STAGE_ORDER[4]] = Absent
    /\ jobs[1].stage_results[STAGE_ORDER[5]] = Absent
    /\ \A c \in Callers : flows[c].job # 1
    /\ ret = "job"

\* C15: once a job is completed or failed, any further run_job on it fails
\* with an error and leaves its status, stage outcomes and final result
\* unchanged; a terminal job never re-enters running.
C15_TerminalIsFinal ==
    [][\A j \in DOMAIN jobs :
        jobs[j].status \in {COMPLETED, FAILED} =>
            /\ jobs'[j].status = jobs[j].status
            /\ jobs'[j].stage_results = jobs[j].stage_results
            /\ jobs'[j].final_result = jobs[j].final_result
            /\ \A c \in Callers, cb \in BOOLEAN, r \in BOOLEAN :
                   run_job(c, j, cb, r) => ret' \in {"RuntimeError", "ValueError"}]_vars

\* C16: final_result is present only if the status is completed, and the
\* status is completed only if all five stages have a completed outcome and
\* final_result holds their merge, whatever the progress callback does.
C16_FinalResultIffCompleted ==
    \A j \in DOMAIN jobs :
        /\ jobs[j].final_result # None => jobs[j].status = COMPLETED
        /\ jobs[j].status = COMPLETED =>
               /\ \A st \in AnalysisStage : jobs[j].stage_results[st].status = COMPLETED
               /\ jobs[j].final_result = "merged"

\* C17: whenever a job is failed, current_stage is set and stage_results
\* holds for that stage an outcome that is failed with a non-empty error.
C17_FailedNamesFailedStage ==
    \A j \in DOMAIN jobs :
        jobs[j].status = FAILED =>
            /\ jobs[j].current_stage \in AnalysisStage
            /\ jobs[j].stage_results[jobs[j].current_stage].status = FAILED
            /\ jobs[j].stage_results[jobs[j].current_stage].error \notin {None, ""}

\* the run_job calls that are inside the stage loop of job j
InStageLoop(j) == {c \in Callers : flows[c].job = j}

C18_AtMostOneFlow == \A j \in DOMAIN jobs : Cardinality(InStageLoop(j)) <= 1

C18_OthersRefused ==
    [][\A c \in Callers, j \in DOMAIN jobs, cb \in BOOLEAN, r \in BOOLEAN :
        (run_job(c, j, cb, r) /\ InStageLoop(j) # {}) =>
            /\ ret' = "RuntimeError"
            /\ jobs' = jobs
            /\ InStageLoop(j)' = InStageLoop(j)]_vars

C19_RefusedRunChangesNothing ==
    [][\A c \in Callers, j \in RunJobIds, cb \in BOOLEAN, r \in BOOLEAN :
        run_job(c, j, cb, r) =>
            /\ j \notin DOMAIN jobs => (ret' = "ValueError" /\ jobs' = jobs)
            /\ (j \in DOMAIN jobs /\ jobs[j].status \in {RUNNING, COMPLETED}) =>
                   (ret' = "RuntimeError" /\ jobs' = jobs)]_vars

\* a call on a completed job was refused, and the job is as it completed
C19_Witness ==
    /\ ret = "RuntimeError"
    /\ Len(jobs) = 1
    /\ jobs[1].status = COMPLETED
    /\ jobs[1].final_result = "merged"
    /\ \A c \in Callers : flows[c] = Over

\* every element of the list errors occurs in the list detail
ContainsAll(detail, errors) ==
    \A k \in 1..Len(errors) : \E n \in 1..Len(detail) : detail[n] = errors[k]

AdapterRaised == [kind |-> "adapter_error", errors |-> <<>>]

\* the outcome of an adapter call that returned a valid payload
PayloadOk == [kind |-> "ok", errors |-> <<>>]

\* the stage of the job is recorded as failed with the text of the error, the
\* job is failed, and the call c has returned the job
CapturedAsStageFailure(c, j, stage, text) ==
    /\ jobs'[j].stage_results[stage].status = FAILED
    /\ jobs'[j].stage_results[stage].error = text
    /\ jobs'[j].stage_results[stage].data = None
    /\ jobs'[j].current_stage = stage
    /\ jobs'[j].status = FAILED
    /\ ret' = "job"
    /\ flows'[c] = Over

\* C21: an error raised by the prompt renderer or by the model adapter during
\* a stage becomes that stage's failure cause: the outcome is failed with the
\* error text, the job is failed, run_job returns the job instead of raising,
\* and the model is not called at all when rendering failed.
C21_StageErrorsCaptured ==
    [][\A c \in Callers :
        /\ \A j \in DOMAIN jobs :
               (run_job(c, j, FALSE, FALSE) /\ ~Blocked(jobs[j].status)) =>
                   CapturedAsStageFailure(c, j, STAGE_ORDER[1], "RenderError")
        /\ stage_return(c, AdapterRaised, FALSE, TRUE) =>
               CapturedAsStageFailure(c, flows[c].job,
                                      jobs[flows[c].job].current_stage, "AdapterError")
        /\ (/\ stage_return(c, PayloadOk, FALSE, FALSE)
            /\ StageIndex(jobs[flows[c].job].current_stage) < Len(STAGE_ORDER)) =>
               CapturedAsStageFailure(
                   c, flows[c].job,
                   STAGE_ORDER[StageIndex(jobs[flows[c].job].current_stage) + 1],
                   "RenderError")]_vars

\* the prompt of the second stage failed to render after the first stage
\* completed: the run returned the job, failed at the second stage
C21_Witness ==
    /\ Len(jobs) = 1
    /\ jobs[1].status = FAILED
    /\ jobs[1].current_stage = STAGE_ORDER[2]
    /\ jobs[1].stage_results[STAGE_ORDER[1]].status = COMPLETED
    /\ jobs[1].stage_results[STAGE_ORDER[2]].error = "RenderError"
    /\ jobs[1].stage_results[STAGE_ORDER[3]] = Absent
    /\ ret = "job"
    /\ \A c \in Callers : flows[c].job # 1

\* the stages whose payload has the key k
StagesWith(k) == {i \in 1..Len(STAGE_ORDER) : k \in DOMAIN arg[STAGE_ORDER[i]]}

\* the last of a non-empty set of stage indexes
LastOf(indexes) == CHOOSE i \in indexes : \A n \in indexes : n <= i

\* C22: for any five stage payloads the merged report maps each top-level key
\* to its value in the last stage, in the fixed order, whose payload has the
\* key, or to the seed value when no payload has it; code_structure and
\* execution_trace are always present, also when every payload is empty.
C22_MergeLastStageWins ==
    res # <<>> =>
        LET merged == res[1] IN
        /\ DOMAIN merged = DOMAIN MergeSeed \cup {k \in PayloadKeys : StagesWith(k) # {}}
        /\ \A k \in DOMAIN merged :
               IF StagesWith(k) # {}
               THEN merged[k] = arg[STAGE_ORDER[LastOf(StagesWith(k))]][k]
               ELSE merged[k] = MergeSeed[k]
        /\ {"code_structure", "execution_trace"} \subseteq DOMAIN merged

\* merged: the first and the fourth stage both carry code_structure and the
\* fourth wins, concurrency_info comes from the second stage alone, and
\* execution_trace keeps its seed
C22_Witness ==
    /\ res # <<>>
    /\ DOMAIN arg[STAGE_ORDER[1]] = {"code_structure"}
    /\ DOMAIN arg[STAGE_ORDER[2]] = {"concurrency_info"}
    /\ DOMAIN arg[STAGE_ORDER[3]] = {}
    /\ DOMAIN arg[STAGE_ORDER[4]] = {"code_structure"}
    /\ DOMAIN arg[STAGE_ORDER[5]] = {}
    /\ res[1]["code_structure"] = STAGE_ORDER[4]
    /\ res[1]["concurrency_info"] = STAGE_ORDER[2]
    /\ res[1]["execution_trace"] = "seed"

C23_ValidIffNoErrors == res # <<>> => (res[1].is_valid <=> res[1].errors = <<>>)

C23_WarningsDoNotCount ==
    [][call_add_warning => res'[1].is_valid = res[1].is_valid]_vars

\* the errors of the checks that ran
ErrorsOfChecksRun(checks) ==
    IF checks.schema # <<>> THEN checks.schema
    ELSE checks.timestamps \o checks.uuids \o checks.ref_errors \o checks.order

C23_CompleteValidIffNoCheckError ==
    [][call_validate_complete =>
        (res'[1].is_valid <=> ErrorsOfChecksRun(arg) = <<>>)]_vars

\* C23: for a ValidationResult built by any sequence of add_error and
\* add_warning calls, is_valid is true exactly when the error list is empty;
\* warnings never affect is_valid; the result of validate_complete is valid
\* exactly when none of the checks that ran produced an error.
C23_IsValidMeansNoErrors ==
    /\ []C23_ValidIffNoErrors
    /\ C23_WarningsDoNotCount
    /\ C23_CompleteValidIffNoCheckError

\* a result that holds warnings only, and is valid
C23_Witness ==
    /\ res # <<>>
    /\ res[1].is_valid
    /\ Len(res[1].warnings) >= 2
    /\ res[1].errors = <<>>

\* the messages of a list, each behind the prefix
Prefixed(prefix, messages) == [i \in 1..Len(messages) |-> <<prefix, messages[i]>>]

\* C24: when the schema check reports an error, validate_complete runs none
\* of the four later checks: the errors are exactly the schema errors,
\* is_valid is false and one warning says the later checks were skipped; when
\* the schema check passes, all four later checks run and their errors add up.
C24_SchemaErrorsSkipTheRest ==
    [][call_validate_complete =>
        IF arg.schema # <<>>
        THEN /\ res'[1].errors = Prefixed("Schema validation", arg.schema)
             /\ ~res'[1].is_valid
             /\ res'[1].warnings = <<SkippedWarning>>
        ELSE /\ res'[1].errors =
                    Prefixed("Timestamp validation", arg.timestamps)
                    \o Prefixed("UUID validation", arg.uuids)
                    \o Prefixed("Reference integrity", arg.ref_errors)
                    \o Prefixed("Execution order", arg.order)
             /\ res'[1].warnings = Prefixed("Reference integrity", arg.ref_warnings)]_vars

\* a document with two schema errors and errors in every later check: only
\* the schema errors are reported, with the warning
C24_Witness ==
    /\ res # <<>>
    /\ Len(arg.schema) = 2
    /\ arg.timestamps # <<>> /\ arg.uuids # <<>> /\ arg.ref_errors # <<>>
    /\ arg.order # <<>> /\ arg.ref_warnings # <<>>
    /\ res[1].errors = <<<<"Schema validation", 1>>, <<"Schema validation", 2>>>>
    /\ res[1].warnings = <<SkippedWarning>>
    /\ ~res[1].is_valid

\* the ids of the entries of a collection
C25_Ids(entries) == {entries[i].id : i \in DOMAIN entries} \ {None}

\* the traces of a report, each with the indexes of its unit and of itself
C25_Traces(data) ==
    {[u |-> u, t |-> t, trace |-> data.traceable_units[u].traces[t]] :
        <<u, t>> \in {p \in (DOMAIN data.traceable_units) \X (1..1) :
                         p[2] \in DOMAIN data.traceable_units[p[1]].traces}}

\* every reference field of a report that must name an existing entry: its
\* path and 0-based indexes, the id it holds and the ids of the collection
\* it refers to
C25_HardRefs(data) ==
    LET Ref(path, idx, id, ids) == [path |-> path, idx |-> idx, id |-> id, ids |-> ids]
        nodes == C25_Ids(data.nodes)
        flow_ids == C25_Ids(data.flows)
        scopes == UNION {C25_Ids(x.trace.variableScopes) : x \in C25_Traces(data)}
        frames == UNION {C25_Ids(x.trace.callStack) : x \in C25_Traces(data)} IN
    {Ref("edges.source", <<i - 1>>, data.edges[i].source, nodes) : i \in DOMAIN data.edges}
    \cup {Ref("edges.target", <<i - 1>>, data.edges[i].target, nodes) : i \in DOMAIN data.edges}
    \cup {Ref("nodes.parent", <<i - 1>>, data.nodes[i].parent, nodes) : i \in DOMAIN data.nodes}
    \cup {Ref("flows.start_point", <<i - 1>>, data.flows[i].start_point, nodes) : i \in DOMAIN data.flows}
    \cup {Ref("flows.end_point", <<i - 1>>, data.flows[i].end_point, nodes) : i \in DOMAIN data.flows}
    \cup UNION {{Ref("sync_points.waiting_flows", <<i - 1>>, data.sync_points[i].waiting_flows[n], flow_ids) :
                    n \in DOMAIN data.sync_points[i].waiting_flows} : i \in DOMAIN data.sync_points}
    \cup UNION {{Ref("steps.scope_id", <<x.u - 1, x.t - 1, i - 1>>, x.trace.steps[i].scope_id, scopes) :
                    i \in DOMAIN x.trace.steps} : x \in C25_Traces(data)}
    \cup UNION {{Ref("variableScopes.parent_scope_id", <<x.u - 1, x.t - 1, i - 1>>,
                     x.trace.variableScopes[i].parent_scope_id, scopes) :
                    i \in DOMAIN x.trace.variableScopes} : x \in C25_Traces(data)}
    \cup UNION {{Ref("callStack.local_scope_id", <<x.u - 1, x.t - 1, i - 1>>,
                     x.trace.callStack[i].local_scope_id, scopes) :
                    i \in DOMAIN x.trace.callStack} : x \in C25_Traces(data)}
    \cup UNION {{Ref("callStack.parent_frame_id", <<x.u - 1, x.t - 1, i - 1>>,
                     x.trace.callStack[i].parent_frame_id, frames) :
                    i \in DOMAIN x.trace.callStack} : x \in C25_Traces(data)}

\* the involved_units entries of the flows of a report
C25_SoftRefs(data) ==
    UNION {{[path |-> "flows.involved_units", idx |-> <<i - 1>>,
             id |-> data.flows[i].involved_units[n],
             ids |-> C25_Ids(data.traceable_units)] :
               n \in DOMAIN data.flows[i].involved_units} : i \in DOMAIN data.flows}

\* the references that name an id absent from its target collection
C25_Absent(refs) == {r \in refs : r.id # None /\ r.id \notin r.ids}

\* the message that names the index and the id of a reference
C25_Names(message, r) == message = [path |-> r.path, idx |-> r.idx, id |-> r.id]

\* C25: in the result of validate_references, every edge source or target,
\* node parent, step scope, scope parent, frame local scope or parent frame,
\* flow start or end point and sync-point waiting flow that names an id
\* absent from its target collection has an error naming its index and the
\* id, and the result is invalid; an involved_units entry naming an absent
\* traceable unit has a warning and no error, and a report whose only
\* absent ids are in involved_units is valid.
C25_DanglingReferences ==
    res # <<>> =>
        LET r == res[1]
            hard == C25_Absent(C25_HardRefs(arg))
            soft == C25_Absent(C25_SoftRefs(arg)) IN
        /\ \A d \in hard : \E n \in DOMAIN r.errors : C25_Names(r.errors[n], d)
        /\ hard # {} => ~r.is_valid
        /\ \A d \in soft :
              /\ \E n \in DOMAIN r.warnings : C25_Names(r.warnings[n], d)
              /\ \A n \in DOMAIN r.errors : ~C25_Names(r.errors[n], d)
        /\ hard = {} => r.is_valid /\ r.errors = <<>>

\* a report whose second edge has a scope's id as its target and whose flow
\* involves a unit that does not exist: one error, one warning
C25_Witness ==
    /\ res # <<>>
    /\ ~res[1].is_valid
    /\ res[1].errors = <<[path |-> "edges.target", idx |-> <<1>>, id |-> "s"]>>
    /\ res[1].warnings = <<[path |-> "flows.involved_units", idx |-> <<0>>, id |-> "zz"]>>

\* the step-by-step traces of a report with their 0-based indexes
C26_Traces(data) ==
    {x \in UNION {{[unit |-> u - 1, trace |-> t - 1, it |-> data.traceable_units[u].traces[t]] :
                      t \in DOMAIN data.traceable_units[u].traces} :
                  u \in DOMAIN data.traceable_units} : x.it.format = "step-by-step"}

\* the execution_order values of the steps, scopes and frames of a trace,
\* taken together in that order
C26_Values(trace) ==
    LET all == trace.steps \o trace.variableScopes \o trace.callStack
        set == SelectSeq(all, LAMBDA entry : entry.execution_order # NoOrder) IN
    [i \in DOMAIN set |-> set[i].execution_order]

\* the values that occur more than once
C26_Repeated(values) ==
    {values[i] : i \in {n \in DOMAIN values : \E k \in DOMAIN values : k # n /\ values[k] = values[n]}}

\* no value is followed by a smaller one
C26_Ascending(values) == \A i, j \in DOMAIN values : i < j => values[i] <= values[j]

\* the errors about one trace
C26_ErrorsOf(errors, x) ==
    SelectSeq(errors, LAMBDA e : e.unit = x.unit /\ e.trace = x.trace)

C27_Stopped == ~worker_task

\* C27 (no dispatch): while the queue has no dispatch loop, no worker
\* coroutine is left and no popped task waits to start, and no step moves a
\* pending task to running.
C27_NoDispatchWhileStopped ==
    /\ [](C27_Stopped => worker_pc = "none" /\ loop_ready = <<>>)
    /\ [][C27_Stopped /\ ~worker_task' =>
            \A i \in DOMAIN tasks :
                tasks[i].state = PENDING => tasks'[i].state # RUNNING]_vars

\* C27 (running tasks): while the queue has no dispatch loop, a running task
\* can still finish, and the step in which its operation ends records a
\* terminal state and takes it out of the running set.
C27_RunningTasksFinish ==
    /\ [](C27_Stopped => \A i \in running_tasks : ENABLED op_return(i))
    /\ [][C27_Stopped =>
            \A i \in running_tasks :
                op_pc'[i] # op_pc[i] =>
                    /\ tasks'[i].state \in Terminal
                    /\ tasks'[i].completed_at = Datetime
                    /\ i \notin running_tasks']_vars

\* C27 (pending tasks): stop() changes no task, sub-queue or running set,
\* and while the queue has no dispatch loop every pending task is in the
\* sub-queue of its priority.
C27_PendingStayQueued ==
    /\ [][(\E c \in Callers : stop(c) \/ stop_return(c) \/ stop_timeout(c)) =>
            UNCHANGED <<tasks, queues, running_tasks>>]_vars
    /\ [](C27_Stopped =>
            \A i \in DOMAIN tasks :
                tasks[i].state = PENDING => InSeq(queues[tasks[i].priority], i))

\* C27 (never started): stop() on a queue without a dispatch loop returns
\* at once and changes nothing.
C27_StopUnstartedIsNoOp ==
    [][(\E c \in Callers : stop(c)) /\ ~worker_task =>
        /\ ret' = None
        /\ UNCHANGED <<tasks, queues, running_tasks, worker_task, shutdown_event,
                       worker_pc, stop_pc, loop_ready, op_pc, started, jobs>>]_vars

\* C27: after stop() returns the dispatch loop has exited: no pending task
\* is moved to running until start() is called again, running tasks still
\* record their terminal state and leave the running set, pending tasks stay
\* pending in their sub-queues, and stop() on a queue that was never started
\* does nothing.
C27_StopEndsDispatch ==
    /\ C27_NoDispatchWhileStopped
    /\ C27_RunningTasksFinish
    /\ C27_PendingStayQueued
    /\ C27_StopUnstartedIsNoOp

\* the _worker coroutines that have not ended
C28_LiveLoops == (IF worker_pc \in {"sleeping", "active"} THEN 1 ELSE 0) + orphans

\* C28 (second start): start() on a queue whose _worker_task is set raises
\* and changes nothing else.
C28_StartOnStartedFails ==
    [][start /\ worker_task =>
        /\ ret' = "RuntimeError"
        /\ UNCHANGED <<tasks, queues, running_tasks, worker_task, shutdown_event,
                       worker_pc, stop_pc, loop_ready, op_pc, started, jobs,
                       orphans>>]_vars

\* C28 (one loop): at most one _worker coroutine is alive at any time.
C28_AtMostOneLoop == C28_LiveLoops <= 1

\* C28 (restart): start() on a queue whose stop() has completed creates a
\* worker and clears the shutdown event.
C28_RestartAfterStop ==
    [][start /\ ~worker_task =>
        /\ ret' = None
        /\ worker_task'
        /\ ~shutdown_event'
        /\ worker_pc' = "sleeping"]_vars

\* C28: start() on a started queue fails and leaves the existing loop
\* running; under any sequence of start and stop calls at most one dispatch
\* loop exists at any time; after a completed stop() the queue can be
\* started again.
C28_SingleDispatchLoop ==
    /\ C28_StartOnStartedFails
    /\ []C28_AtMostOneLoop
    /\ C28_RestartAfterStop

\* C29: save_result writes the file of a job only if the job is completed,
\* its merged report is present and, when validation is enabled, the report
\* passes the validator; in every other case it raises and no file is
\* written; in that case, with the report serialisable and the path
\* writable, it returns and the file is there.
C29_SaveOnlyValidCompleted ==
    [][\A j \in RunJobIds, validate \in BOOLEAN, passes \in BOOLEAN, io \in WriteOutcomes :
          save_result(j, validate, passes, io) =>
              IF /\ j \in DOMAIN jobs
                 /\ jobs[j].status = COMPLETED
                 /\ jobs[j].final_result # None
                 /\ validate => passes
              THEN /\ files' \subseteq files \cup {j}
                   /\ io = "ok" => ret' = None /\ j \in files'
              ELSE /\ ret' \in {"ValueError", "RuntimeError", "SerializationError"}
                   /\ files' = files]_vars

\* the report of a completed job has been saved, and a later save_result
\* was refused
C29_Witness ==
    /\ files # {}
    /\ \E j \in files : jobs[j].status = COMPLETED
    /\ ret = "SerializationError"

C32_NoStaleHash ==
    [][res' # <<>> /\ res'[1].op = "get_file_hash" =>
        res'[1].value \in {NoEntry, HashOf(disk.st_mtime)}]_vars

\* the moves of a task's state the lifecycle allows
C33_Moves ==
    {<<PENDING, RUNNING>>, <<PENDING, CANCELLED>>}
    \cup {<<RUNNING, t>> : t \in Terminal}

\* C33: a task's state only moves pending -> running, pending -> cancelled or
\* running -> completed, failed, cancelled or timeout: a terminal state never
\* changes again and a running task never returns to pending.
C33_StateMoves ==
    [][\A i \in DOMAIN tasks :
        tasks'[i].state # tasks[i].state =>
            <<tasks[i].state, tasks'[i].state>> \in C33_Moves]_vars

\* C34: with the queue started and not stopped, and every operation ending
\* (returning, raising or timed out), every submitted task eventually is in a
\* terminal state and out of the running set for good, and every
\* wait_for_task on it without a wait timeout eventually returns.
C34_TasksEnd ==
    \A i \in TaskIds :
        /\ (worker_task /\ i \in DOMAIN tasks) ~>
               [](/\ i \in DOMAIN tasks
                  /\ tasks[i].state \in Terminal
                  /\ i \notin running_tasks)
        /\ (worker_task /\ i \in waiters) ~> (i \notin waiters)

\* two tasks were submitted to the started queue, both ran and ended, one of
\* them by its timeout, and a wait_for_task call returned
C34_Witness ==
    /\ worker_task
    /\ ret = "task"
    /\ waiters = {}
    /\ Len(tasks) >= 2
    /\ Len(started) = Len(tasks)
    /\ \A i \in DOMAIN tasks : tasks[i].state \in Terminal /\ i \notin running_tasks
    /\ \E i \in DOMAIN tasks : tasks[i].state = TIMEOUT

\* the stages before stage in STAGE_ORDER
C35_Preceding(stage) == {STAGE_ORDER[i] : i \in 1..(StageIndex(stage) - 1)}

\* C35: for every stage after the first, when the preceding stages completed
\* with non-empty payloads, the stage input holds fragments of their outputs
\* besides project_path and project_name.
C35_LaterStagesGetFragments ==
    (/\ res # <<>>
     /\ arg.stage # STAGE_ORDER[1]
     /\ \A st \in C35_Preceding(arg.stage) : HasData(arg.stage_results[st])) =>
        /\ DOMAIN BaseInput \subseteq DOMAIN res[1]
        /\ DOMAIN res[1] # DOMAIN BaseInput

\* C37: the semantic-analysis input carries project_metadata_json equal to
\* the project_metadata of the project-understanding payload and
\* code_structure_json equal to the code_structure of the
\* structure-recognition payload, whatever other keys the payloads hold.
C37_SemanticFragments ==
    (/\ res # <<>>
     /\ arg.stage = "semantic_analysis"
     /\ HasData(arg.stage_results["project_understanding"])
     /\ HasData(arg.stage_results["structure_recognition"])
     /\ "project_metadata" \in DOMAIN arg.stage_results["project_understanding"].data
     /\ "code_structure" \in DOMAIN arg.stage_results["structure_recognition"].data) =>
        /\ res[1]["project_metadata_json"] =
               dumps(arg.stage_results["project_understanding"].data["project_metadata"])
        /\ res[1]["code_structure_json"] =
               dumps(arg.stage_results["structure_recognition"].data["code_structure"])

\* the attempts that come to a response, and those that come to an error
\* that is not retried
C36_Successes == {k \in 1..arg.max_retries : arg.outcomes[k] = "AIResponse"}
C36_Fatal == {k \in 1..arg.max_retries : arg.outcomes[k] \in FatalErrors}

\* C36: generate_with_retry calls generate at most max_retries times; a call
\* is followed by another only if it raised a rate-limit or generic adapter
\* error; the first response is returned with no further call; an
\* authentication, invalid-request or model-not-found error is raised again
\* by the attempt it occurs in; and an adapter error is raised when every
\* attempt failed or max_retries is 0.
C36_RetryPolicy ==
    res # <<>> =>
        LET r == res[1] IN
        /\ r.calls <= arg.max_retries
        /\ \A k \in 1..(r.calls - 1) :
               arg.outcomes[k] \in {"RateLimitError", "AIAdapterError"}
        /\ r.returned # 0 =>
               /\ r.returned = r.calls
               /\ arg.outcomes[r.returned] = "AIResponse"
               /\ r.raised = None
        /\ \A k \in C36_Successes :
               (\A j \in 1..(k - 1) : j \notin C36_Successes \cup C36_Fatal) =>
                   r.returned = k
        /\ \A k \in C36_Fatal :
               (\A j \in 1..(k - 1) : j \notin C36_Successes \cup C36_Fatal) =>
                   r.raised = arg.outcomes[k] /\ r.calls = k
        /\ C36_Successes = {} => r.returned = 0 /\ r.raised \in AdapterErrors
        /\ (C36_Successes \cup C36_Fatal = {} /\ arg.max_retries > 0) =>
               r.calls = arg.max_retries /\ r.raised = arg.outcomes[arg.max_retries]

\* a rate-limit error and a generic error were retried and the third call's
\* response was returned
C36_Witness ==
    /\ res # <<>>
    /\ arg.max_retries = 3
    /\ arg.outcomes[1] = "RateLimitError"
    /\ arg.outcomes[2] = "AIAdapterError"
    /\ res[1] = RetryResult(3, 3, None)

\* the job is being executed: the _run_task of a scheduler task, or a direct
\* caller, is inside run_job(job_id)
C38_FlowIn(job_id) ==
    \/ \E i \in DOMAIN tasks : tasks[i].job = job_id /\ op_pc[i] = "awaiting"
    \/ \E c \in Callers : flows[c].job = job_id

\* C38: no job remains in status running after its execution flow has ended,
\* also when the scheduler task running it hit its task timeout.
C38_NoJobLeftRunning ==
    \A j \in DOMAIN jobs : jobs[j].status = RUNNING => C38_FlowIn(j)

\* C39: when a scheduler task whose operation is run_job ends, its state
\* matches the job's outcome: completed if and only if the job ended
\* completed, failed whenever the job ended failed.
C39_TaskMatchesJob ==
    [][\A i \in DOMAIN tasks :
        (/\ tasks[i].job \in DOMAIN jobs
         /\ op_pc[i] = "awaiting"
         /\ op_pc'[i] = "done") =>
            LET job == jobs'[tasks[i].job] IN
            /\ tasks'[i].state = COMPLETED <=> job.status = COMPLETED
            /\ job.status = FAILED => tasks'[i].state = FAILED]_vars

\* C40: in the statistics get_stats returns, total_tasks = pending + running
\* + completed + failed + cancelled + timeout, under any interleaving of
\* submit, cancel, dispatch and completion.
C40_StatsAddUp ==
    res # <<>> =>
        LET stats == res[1] IN
        stats.total_tasks = stats.pending + stats.running + stats.completed
                            + stats.failed + stats.cancelled + stats.timeout

====
